---- MODULE Spec2Model ----
(***************************************************************************)
(* Verification model of the memory consolidation and retrieval engine of  *)
(* the ONE assistant.                                                      *)
(*                                                                         *)
(* The repository holds several managers that never share data; each is    *)
(* modelled by its own group of variables and its own specification:       *)
(*   SpecConsol  core/memory/snapshot_manager.py (the locked update cycle  *)
(*               over a MemoryStore) and core/snapshot/snapshot_manager.py *)
(*               (the per-memory update over the SQL storage)              *)
(*   SpecSnap    core/memory/snapshot.py + core/memory/storage.py +        *)
(*               core/processor/snapshot_processor.py                      *)
(*   SpecRet     core/retrieval/{memory_retriever,vector_store,            *)
(*               batch_processor}.py + core/memory/memory_manager.py       *)
(*   SpecJudge   the relevance evaluation of an oracle response:           *)
(*               SnapshotProcessor.get_relevant_memories and               *)
(*               MemorySearcher._evaluate_memories                         *)
(*                                                                         *)
(* Scheduling: one asyncio event loop.  A coroutine runs without           *)
(* interruption up to its next real suspension point, so an action of the  *)
(* model is the code between two suspension points.  Variables whose name  *)
(* starts with h are history variables: they record what happened and are  *)
(* never read by the modelled code.                                        *)
(***************************************************************************)
EXTENDS Integers, Sequences, FiniteSets, TLC

(***************************************************************************)
(* Bounds of the model.                                                    *)
(***************************************************************************)
NumCallers == 2      \* concurrent callers of update_snapshots
MaxClock   == 2      \* the clock runs 0..MaxClock
MaxMem     == 2      \* memory ids 1..MaxMem of the MemoryStore
MaxDay     == 2      \* days 1..MaxDay a memory's timestamp may fall on

(***************************************************************************)
(* Program constants.  Time is counted in ticks; update_interval, one hour *)
(* in the code, is two ticks here.                                         *)
(***************************************************************************)
UpdateInterval == 2
MinTime == 0 - 100   \* datetime.min: further back than any interval

Callers == 1..NumCallers
MemIds  == 1..MaxMem
Days    == 1..MaxDay
Clock   == 0..MaxClock

VARIABLES
    variant,        \* the objects in use: "cycle", "permem", "snap" or "ret"
    clock,          \* datetime.now(), in ticks
    \* ---- core/memory/snapshot_manager.py over a MemoryStore
    fsMemories,     \* memories of the store: set of [id, day]
    fsDetail,       \* detail snapshots of the store: set of [id, mems, ts]
    fsBase,         \* base snapshots of the store: set of [id, details]
    last_update,    \* SnapshotManager.last_update
    lockHolder,     \* _update_lock: the caller holding it, 0 when free
    lockWaiters,    \* _update_lock: callers waiting, first come first
    upc,            \* where each caller's update_snapshots stands
    unow,           \* the local `now` of each caller's update_snapshots
    tasks,          \* detail tasks of the running cycle: group -> status
    cycleDetails,   \* detail_snapshots collected by the running cycle
    taskStart,      \* the time the detail tasks of the cycle made their ids
    clusters,       \* clusters still to be handled by the running cycle
    existingBase,   \* existing_snapshots read by _create_or_update_base_snapshots
    hArrivedDuring, \* the call of c began while another call was in its cycle
    hCycleCall,     \* when the call of the last completed cycle began, MinTime
                    \* once a memory was added after it
    hRepeat,        \* a call was made right after a completed cycle
    \* ---- core/snapshot/snapshot_manager.py over core/storage/memory_storage.py
    pmMemories,     \* rows of table memories (ids)
    pmSnapshots,    \* rows of table snapshots (ids)
    pmLinks,        \* rows of table memory_snapshots: <<memory, snapshot>>
    pmResult,       \* how the last update_snapshots ended
    hPmQuiet,       \* an update completed and no memory was saved since
    hPmRepeat,      \* an update was run right after a completed one
    \* ---- core/memory/snapshot.py over core/memory/storage.py
    smMemories,     \* SnapshotManager.memories: ids
    smSnapshots,    \* SnapshotManager.snapshots: set of [id, refs]
    smMeta,         \* SnapshotManager.meta_snapshots: set of [id, refs]
    stMemories,     \* storage, memories: set of [id, ts] (ts of the index)
    stSnapshots,    \* storage, snapshots: set of [id, refs, ts]
    stMeta,         \* storage, meta snapshots: set of [id, refs, ts]
    smIds,          \* ids handed out so far: [mem, snap, meta] (uuid4 is fresh)
    smResult,       \* the last call and how it ended: <<call, outcome>>
    \* ---- core/retrieval and core/memory/memory_manager.py
    vsIndex,        \* VectorStore.index with id_map: sequence of [id, vec]
    vsMemoryMap,    \* VectorStore.memory_map: set of [id, content]
    vsVectorCache,  \* VectorStore._vector_cache: set of [id, vec]
    rcCache,        \* MemoryRetriever._cache: set of [q, results, ts], with the
                    \* history fields preAdd, preBatch: written before the
                    \* last add_memory, before the last batch
    spc,            \* where the search_memories call in flight stands
    sq,             \* its query
    sFound,         \* its vector_results: set of [id, near]
    sResult,        \* what the last search_memories returned: <<how, results>>
    mbBatch,        \* the memories of the add_memories_batch call in flight
    mmResult,       \* how the last MemoryManager call ended
    hCleared,       \* a clear has completed and nothing was added since
    hInvalidated,   \* add_memory has met a cache that held an entry
    hOverlap,       \* add_memory has run since the search in flight read
                    \* the index
    \* ---- relevance evaluation (snapshot_processor.py, searcher.py)
    jQuery,         \* context['current_query'] is not empty
    jMemories,      \* the candidate memories: ids
    jResponse,      \* what the oracle answered: [shape, entries]
    jOut,           \* get_relevant_memories: [done, list of <<id, score>>]
    jsOut,          \* _evaluate_memories: [done, list of <<id, score>>]
    jMinRelevance,  \* MemorySearcher.config.min_relevance, in tenths
    \* ---- VectorStore.search as a function of its arguments (vector_store.py)
    svIndex,        \* the index: per entry its L2 distance to the query
                    \* and metadata['importance'] (-1: no such key)
    svTopK,         \* top_k
    svThreshold,    \* threshold, in thousandths
    svOut,          \* [how, list of <<position, final_score>>]
    \* ---- SnapshotGenerator over LLMService.generate_json
    gKind,          \* "detail" or "meta": which generator method is called
    gRefs,          \* the ids of the memories or snapshots handed in
    gReply,         \* the API call: [call, doc]
    gOut,           \* [how, defaults, refs]: raised, or the snapshot
    \* ---- saving a memory with failing file writes (storage.py, file_store.py)
    msFiles,        \* MemoryStorage: memories/<id>.json: "none", "whole", "partial"
    msIndex,        \* MemoryStorage.index['memories']: ids
    msIndexFile,    \* index.json: [ok, ids]; not ok: a truncated file
    msResult,       \* the last save_memory: "none", "returned", "raised"
    faFiles,        \* FileMemoryStore: memories/<id>.json
    faIndex,        \* FileMemoryStore.memory_snapshot_index: ids
    faIndexFiles,   \* indexes/memory_snapshots/<id>.json
    faResult,       \* the last add: "none", "true", "false"
    \* ---- a chat turn (chat_manager.py, llm_service.py, core/storage)
    chTurn,         \* the number of chat calls so far
    chHistory,      \* ChatManager.history: [turn, content, is_user]
    chStore,        \* the rows of the memories table, same records
    chSnaps,        \* the turns whose query has a snapshot row
    chPending,      \* the _process_storage tasks created and not yet run
    chResult,       \* result['response'] of the last chat call, or how
                    \* clear_all ended
    hFailedTurns,   \* the turns whose completion call raised
    hLookupRaised,  \* get_relevant_snapshots raised in the last chat call
    hLog,           \* every entry ever added to the history, in order
    hClearedTurn,   \* the number of chat calls made before the last clear_all
    \* ---- the lru_cache of SnapshotManager's two read methods
    cacheBase,      \* get_base_snapshots(): <<>> or <<the cached list>>
    cacheDetail,    \* get_detail_snapshots(key): per key <<>> or <<list>>
    \* ---- calls of the snapshot generators
    hGenCalled,     \* SnapshotManager.generator has been called
    hProcGenCalled, \* SnapshotProcessor.generator has been called
    \* ---- core/retrieval/memory_retriever.py, search_memories
    mrMap,          \* vector_store.memory_map: per id a memory or none
    mrVector,       \* what the memory index finds: <<id, score>> entries
    mrMeta,         \* what the meta index finds: <<memory id, score>> entries
    mrTopK,         \* top_k
    mrThreshold,    \* threshold
    mrContext,      \* context: "none", "user" (a user_id) or "other"
    mrCache,        \* _cache[cache_key]: <<>> or <<results>>
    mrOut,          \* <<operation, its result>>
    \* ---- core/memory/episodic.py, EpisodicMemoryStore
    epReady,        \* the store object has its `memories` attribute
    epMaxSize,      \* max_size
    epMemories,     \* memories: the stored memories in insertion order
    epTagIndex,     \* tag_index: per tag the set of memory ids
    epOut,          \* the last call: operation, outcome and result
    \* ---- core/memory/file_store.py: the files and the association tables
    fsMemoryFiles,          \* memories/<id>.json: the ids
    fsDetailFiles,          \* snapshots/detail/<id>.json: id -> memory_ids
    memory_snapshot_index,  \* memory id -> set of snapshot ids
    snapshot_memory_index,  \* snapshot id -> set of memory ids
    fsMsiFiles,             \* indexes/memory_snapshots/<id>.json
    fsSmiFiles,             \* indexes/snapshot_memories/<id>.json
    fsResult                \* the last call and what it returned

updVars == <<fsMemories, fsDetail, fsBase, last_update, lockHolder, lockWaiters,
             upc, unow, tasks, cycleDetails, taskStart, clusters, existingBase,
             hArrivedDuring, hCycleCall, hRepeat>>
pmVars  == <<pmMemories, pmSnapshots, pmLinks, pmResult, hPmQuiet, hPmRepeat>>

snapVars == <<smMemories, smSnapshots, smMeta, stMemories, stSnapshots, stMeta,
              smIds, smResult>>
retVars == <<vsIndex, vsMemoryMap, vsVectorCache, rcCache, spc, sq, sFound,
             sResult, mbBatch, mmResult, hCleared, hInvalidated,
             hOverlap>>
judgeVars == <<jQuery, jMemories, jResponse, jOut, jsOut, jMinRelevance>>
searchVars == <<svIndex, svTopK, svThreshold, svOut>>
genVars == <<gKind, gRefs, gReply, gOut>>
saveVars == <<msFiles, msIndex, msIndexFile, msResult,
              faFiles, faIndex, faIndexFiles, faResult>>
chatVars == <<chTurn, chHistory, chStore, chSnaps, chPending, chResult,
              hFailedTurns, hLookupRaised, hLog, hClearedTurn>>
cacheVars == <<cacheBase, cacheDetail>>
pureVars == <<judgeVars, searchVars, genVars, saveVars, chatVars>>
genCallVars == <<hGenCalled, hProcGenCalled>>
mrVars == <<mrMap, mrVector, mrMeta, mrTopK, mrThreshold, mrContext, mrCache, mrOut>>
epVars == <<epReady, epMaxSize, epMemories, epTagIndex, epOut>>
fsVars == <<fsMemoryFiles, fsDetailFiles, memory_snapshot_index,
            snapshot_memory_index, fsMsiFiles, fsSmiFiles, fsResult>>
fnVars == <<mrVars, epVars, fsVars>>
extVars == <<pureVars, cacheVars, genCallVars, fnVars>>
baseVars == <<variant, clock, updVars, pmVars, snapVars, retVars>>
vars == <<baseVars, extVars>>

(***************************************************************************)
(* core/memory/snapshot_manager.py                                         *)
(***************************************************************************)
MemKey(m)  == <<"memory", m>>
DetailId(t) == <<"detail", t>>
BaseId(t)   == <<"base", t>>

\* FileMemoryStore.get_detail_snapshots: the detail snapshots listed under
\* the base snapshot whose id is the key (none when the key is no base id).
GetDetailSnapshots(key) ==
    { d \in fsDetail : \E b \in fsBase : b.id = key /\ d.id \in b.details }

\* SnapshotManager._group_by_time: one group per day, every memory in one.
GroupByTime(memories) ==
    { { m \in memories : m.day = d } : d \in { m.day : m \in memories } }

\* max(existing_snapshots, key=timestamp)
Latest(snaps) == CHOOSE s \in snaps : \A t \in snaps : t.ts <= s.ts

\* Records written over an existing id replace it (same file name).
PutById(set, rec) == { r \in set : r.id # rec.id } \cup {rec}

InCycle(c) == upc[c] \in {"details", "base"}

\* The keys get_detail_snapshots is called with: the ids base snapshots get.
CacheKeys == { BaseId(t) : t \in Clock }

InitGenCall ==
    /\ hGenCalled = FALSE
    /\ hProcGenCalled = FALSE

InitCache ==
    /\ cacheBase = <<>>
    /\ cacheDetail = [k \in CacheKeys |-> <<>>]

\* @lru_cache: the stored value when there is one, else the value computed.
CachedValue(entry, value) == IF entry = <<>> THEN value ELSE entry[1]

\* cache_clear()
CacheCleared(cache) == [k \in DOMAIN cache |-> <<>>]

\* SnapshotManager.get_base_snapshots()
MgrGetBaseSnapshots ==
    /\ variant = "cache"
    /\ cacheBase = <<>>
    /\ cacheBase' = <<CachedValue(cacheBase, fsBase)>>
    /\ UNCHANGED <<cacheDetail, baseVars, pureVars, genCallVars, fnVars>>

\* SnapshotManager.get_detail_snapshots(key)
MgrGetDetailSnapshots(key) ==
    /\ variant = "cache"
    /\ cacheDetail[key] = <<>>
    /\ cacheDetail' = [cacheDetail EXCEPT
                          ![key] = <<CachedValue(cacheDetail[key], GetDetailSnapshots(key))>>]
    /\ UNCHANGED <<cacheBase, baseVars, pureVars, genCallVars, fnVars>>

InitUpd ==
    /\ fsMemories = {}
    /\ fsDetail = {}
    /\ fsBase = {}
    /\ last_update = MinTime
    /\ lockHolder = 0
    /\ lockWaiters = <<>>
    /\ upc = [c \in Callers |-> "idle"]
    /\ unow = [c \in Callers |-> 0]
    /\ tasks = <<>>
    /\ cycleDetails = <<>>
    /\ taskStart = 0
    /\ clusters = <<>>
    /\ existingBase = {}
    /\ hArrivedDuring = [c \in Callers |-> FALSE]
    /\ hCycleCall = MinTime
    /\ hRepeat = FALSE

\* MemoryStore.add: a new memory, its timestamp on day d.
AddMemory(m, d) ==
    /\ variant \in {"cycle", "cache"}
    /\ m = Cardinality(fsMemories) + 1
    /\ fsMemories' = fsMemories \cup {[id |-> m, day |-> d]}
    /\ hCycleCall' = MinTime
    /\ UNCHANGED <<fsDetail, fsBase, last_update, lockHolder, lockWaiters, upc,
                   unow, tasks, cycleDetails, taskStart, clusters, existingBase,
                   hArrivedDuring, hRepeat>>
    /\ UNCHANGED <<variant, clock, pmVars, snapVars, retVars, extVars>>

\* _create_or_update_detail_snapshot up to `await asyncio.to_thread(...)`:
\* the snapshots the store returns for the group's memories (it is asked with
\* each memory id); the latest is reused when younger than the interval.
Existing(g) == UNION { GetDetailSnapshots(MemKey(m.id)) : m \in g }
Reusable(g, now) ==
    Existing(g) # {} /\ now - Latest(Existing(g)).ts < UpdateInterval

\* The groups in the order their tasks are created (by their first memory).
RECURSIVE GroupSeq(_)
GroupSeq(groups) ==
    IF groups = {} THEN <<>>
    ELSE LET first == CHOOSE g \in groups : \A h \in groups :
                        \E m \in g : \A n \in h : m.id <= n.id
         IN <<first>> \o GroupSeq(groups \ {first})

\* The snapshots that the tasks which reuse a snapshot return, in task order.
RECURSIVE Reused(_, _)
Reused(gs, now) ==
    IF gs = <<>> THEN <<>>
    ELSE (IF Reusable(Head(gs), now) THEN <<Latest(Existing(Head(gs)))>> ELSE <<>>)
         \o Reused(Tail(gs), now)

\* A faulty variant of the test for an empty store: it never returns early.
NeverEmpty(memories) == FALSE

\* `if not memories: return`
NoMemories(memories) == memories = {}

\* update_snapshots from the moment the lock is held to its first suspension
\* (as_completed): list the memories, return when there are none, else group
\* them and create one task per group; the tasks then run, one after the
\* other, up to their own first suspension (to_thread).
EnterCycle(c, now, arrived) ==
    /\ IF NoMemories(fsMemories)
       THEN /\ UNCHANGED hGenCalled
            /\ lockHolder' = 0
            /\ upc' = [upc EXCEPT ![c] = "idle"]
            /\ unow' = [unow EXCEPT ![c] = 0]
            /\ tasks' = <<>>
            /\ hCycleCall' = now
            /\ hArrivedDuring' = [hArrivedDuring EXCEPT ![c] = FALSE]
            /\ UNCHANGED <<cycleDetails, taskStart>>
       ELSE /\ lockHolder' = c
            /\ upc' = [upc EXCEPT ![c] = "details"]
            /\ unow' = [unow EXCEPT ![c] = now]
            /\ tasks' = [g \in GroupByTime(fsMemories) |->
                            IF Reusable(g, clock) THEN "done" ELSE "gen"]
            /\ cycleDetails' = Reused(GroupSeq(GroupByTime(fsMemories)), clock)
            /\ taskStart' = clock
            /\ hArrivedDuring' = [hArrivedDuring EXCEPT ![c] = arrived]
            /\ hGenCalled' = (hGenCalled \/ \E g \in GroupByTime(fsMemories) :
                                                ~Reusable(g, clock))
            /\ UNCHANGED hCycleCall
    /\ UNCHANGED <<fsMemories, fsDetail, fsBase, last_update, clusters, existingBase>>

\* Faulty variants of the two guards of update_snapshots: an interval test
\* that never returns early, and a lock that never makes a caller wait.
NeverTooSoon(now) == FALSE
LockAlwaysFree == TRUE

\* The interval test of update_snapshots: TRUE when the call returns at once.
TooSoon(now) == now - last_update < UpdateInterval

\* `async with self._update_lock` goes through without waiting.
LockFree == lockHolder = 0 /\ lockWaiters = <<>>

\* update_snapshots is called: interval test, then `async with _update_lock`.
UpdStart(c) ==
    /\ variant \in {"cycle", "cache"}
    /\ upc[c] = "idle"
    /\ hRepeat' = (hRepeat \/ clock - hCycleCall < UpdateInterval)
    /\ IF TooSoon(clock)
       THEN UNCHANGED <<fsMemories, fsDetail, fsBase, last_update, lockHolder,
                        lockWaiters, upc, unow, tasks, cycleDetails, taskStart,
                        clusters,
                        existingBase, hArrivedDuring, hCycleCall, hGenCalled>>
       ELSE IF LockFree
            THEN /\ EnterCycle(c, clock, FALSE)
                 /\ UNCHANGED lockWaiters
            ELSE /\ lockWaiters' = Append(lockWaiters, c)
                 /\ upc' = [upc EXCEPT ![c] = "waiting"]
                 /\ unow' = [unow EXCEPT ![c] = clock]
                 /\ hArrivedDuring' = [hArrivedDuring EXCEPT
                                         ![c] = \E o \in Callers \ {c} : InCycle(o)]
                 /\ UNCHANGED <<fsMemories, fsDetail, fsBase, last_update,
                                lockHolder, tasks, cycleDetails, taskStart, clusters,
                                existingBase, hCycleCall, hGenCalled>>
    /\ UNCHANGED <<variant, clock, pmVars, snapVars, retVars, pureVars, cacheVars,
                   hProcGenCalled, fnVars>>

\* A waiting caller is handed the released lock and runs its cycle.
UpdAcquire(c) ==
    /\ upc[c] = "waiting"
    /\ lockHolder = 0
    /\ lockWaiters # <<>> /\ Head(lockWaiters) = c
    /\ lockWaiters' = Tail(lockWaiters)
    /\ UNCHANGED hRepeat
    /\ EnterCycle(c, unow[c], hArrivedDuring[c])
    /\ UNCHANGED <<variant, clock, pmVars, snapVars, retVars, pureVars, cacheVars,
                   hProcGenCalled, fnVars>>

\* The detail snapshot the store writes for a group at time t: its id is
\* made of the time the task began, before `await asyncio.to_thread(...)`,
\* its timestamp is the time it is generated.
NewDetail(g, made, t) ==
    [id |-> DetailId(made), mems |-> { m.id : m \in g }, ts |-> t]

\* A faulty variant of the except clause of a detail task: the exception
\* ends every task of the cycle.
AllTasksFailed(ts, g) == [h \in DOMAIN ts |-> IF ts[h] = "gen" THEN "failed" ELSE ts[h]]

\* `except Exception: return None` in _create_or_update_detail_snapshot:
\* the task of group g ends with no snapshot, the other tasks go on.
TaskFailed(ts, g) == [ts EXCEPT ![g] = "failed"]

\* The rest of _create_or_update_detail_snapshot: the generator and the store
\* are the manager's collaborators; together they either deliver a stored
\* snapshot or raise, and a raise makes the task return None.
DetailFinish(g, ok) ==
    /\ lockHolder # 0 /\ upc[lockHolder] = "details"
    /\ g \in DOMAIN tasks /\ tasks[g] = "gen"
    /\ tasks' = IF ok THEN [tasks EXCEPT ![g] = "done"] ELSE TaskFailed(tasks, g)
    /\ IF ok
       THEN /\ fsDetail' = PutById(fsDetail, NewDetail(g, taskStart, clock))
            /\ cycleDetails' = Append(cycleDetails, NewDetail(g, taskStart, clock))
       ELSE UNCHANGED <<fsDetail, cycleDetails>>
    /\ UNCHANGED <<fsMemories, fsBase, last_update, lockHolder,
                   lockWaiters, upc, unow, clusters, existingBase, taskStart,
                   hArrivedDuring, hCycleCall, hRepeat>>
    /\ cacheDetail' = (IF ok THEN CacheCleared(cacheDetail) ELSE cacheDetail)
    /\ UNCHANGED <<variant, clock, pmVars, snapVars, retVars, pureVars, cacheBase, genCallVars, fnVars>>

\* _cluster_by_topic: the manager has no vector_store attribute, so the
\* embedding of the first snapshot raises and every snapshot becomes a
\* cluster of its own; no snapshots, no clusters.
ClusterByTopic(snaps) == [i \in 1..Len(snaps) |-> {snaps[i].id}]

\* The end of the cycle, from the end of the loop over clusters to the
\* release of the lock: _optimize_snapshots and _update_stats change no
\* snapshot, last_update = now (the time read when the call began).
Finish(c) ==
    /\ last_update' = unow[c]
    /\ lockHolder' = 0
    /\ upc' = [upc EXCEPT ![c] = "idle"]
    /\ unow' = [unow EXCEPT ![c] = 0]
    /\ tasks' = <<>>
    /\ cycleDetails' = <<>>
    /\ taskStart' = 0
    /\ clusters' = <<>>
    /\ existingBase' = {}
    /\ hArrivedDuring' = [hArrivedDuring EXCEPT ![c] = FALSE]
    /\ hCycleCall' = unow[c]

\* All detail tasks are back: update the base snapshots when any snapshot
\* came back, reading the existing base snapshots once.
UpdBase(c) ==
    /\ upc[c] = "details"
    /\ \A g \in DOMAIN tasks : tasks[g] \in {"done", "failed"}
    /\ IF cycleDetails = <<>>
       THEN /\ Finish(c)
            /\ UNCHANGED fsBase
       ELSE /\ upc' = [upc EXCEPT ![c] = "base"]
            /\ clusters' = ClusterByTopic(cycleDetails)
            /\ existingBase' = fsBase
            /\ UNCHANGED <<fsBase, last_update, lockHolder, unow, tasks,
                           cycleDetails, taskStart, hArrivedDuring, hCycleCall>>
    /\ UNCHANGED <<fsMemories, fsDetail, lockWaiters, hRepeat>>
    /\ UNCHANGED <<variant, clock, pmVars, snapVars, retVars, extVars>>

\* A cluster has a base snapshot already: one with the same set of detail ids.
HasBase(cluster) == \E b \in existingBase : b.details = cluster

\* One round of the loop over clusters: a cluster that has a base snapshot is
\* left alone; otherwise a base snapshot is generated and stored, and a raise
\* ends the whole loop.  After the last round the cycle ends.
UpdBaseStep(c, ok) ==
    /\ upc[c] = "base"
    /\ clusters # <<>>
    /\ fsBase' = IF ~HasBase(Head(clusters)) /\ ok
                 THEN PutById(fsBase, [id |-> BaseId(clock), details |-> Head(clusters)])
                 ELSE fsBase
    /\ IF Len(clusters) = 1 \/ (~HasBase(Head(clusters)) /\ ~ok)
       THEN Finish(c)
       ELSE /\ clusters' = Tail(clusters)
            /\ UNCHANGED <<last_update, lockHolder, upc, unow, tasks,
                           cycleDetails, taskStart, existingBase, hArrivedDuring, hCycleCall>>
    /\ UNCHANGED <<fsMemories, fsDetail, lockWaiters, hRepeat>>
    /\ cacheBase' = (IF Len(clusters) = 1 /\ (HasBase(Head(clusters)) \/ ok)
                   THEN <<>> ELSE cacheBase)
    /\ hGenCalled' = (hGenCalled \/ ~HasBase(Head(clusters)))
    /\ UNCHANGED <<variant, clock, pmVars, snapVars, retVars, pureVars, cacheDetail,
                   hProcGenCalled, fnVars>>

\* Time passes.
Tick ==
    /\ clock < MaxClock
    /\ clock' = clock + 1
    /\ UNCHANGED <<variant, updVars, pmVars, snapVars, retVars, extVars>>

(***************************************************************************)
(* core/snapshot/snapshot_manager.py over core/storage/memory_storage.py   *)
(* The LLM client is synchronous and every storage method runs without     *)
(* suspending, so update_snapshots is one step of the event loop.          *)
(***************************************************************************)
PmMaxMem  == 2       \* rows the memories table may hold
PmMaxSnap == 3       \* rows the snapshots table may hold

InitPm ==
    /\ pmMemories = {}
    /\ pmSnapshots = {}
    /\ pmLinks = {}
    /\ pmResult = "none"
    /\ hPmQuiet = FALSE
    /\ hPmRepeat = FALSE

\* MemoryStorage.save_memory: a new row, its id the next integer.
PmSaveMemory ==
    /\ variant = "permem"
    /\ Cardinality(pmMemories) < PmMaxMem
    /\ pmMemories' = pmMemories \cup {Cardinality(pmMemories) + 1}
    /\ hPmQuiet' = FALSE
    /\ UNCHANGED <<pmSnapshots, pmLinks, pmResult, hPmRepeat>>
    /\ UNCHANGED <<variant, clock, updVars, snapVars, retVars, extVars>>

\* MemoryStorage.get_memory_snapshots: memory.snapshots, the snapshots linked
\* to the memory through table memory_snapshots.
PmMemorySnapshots(m) == { l[2] : l \in { x \in pmLinks : x[1] = m } }

\* The memories update_snapshots creates a snapshot for.
PmNeeding == { m \in pmMemories : PmMemorySnapshots(m) = {} }

Rank(m, S) == Cardinality({ x \in S : x < m })

\* update_snapshots: for every memory without a snapshot, create_snapshot
\* (LLM summary, save_snapshot, link_memory_snapshot).  `fail` names the
\* memory and the stage at which create_snapshot raises, <<0, "none">> when
\* nothing raises; a raise ends the loop and leaves update_snapshots.
PmUpdateSnapshots(fail) ==
    /\ variant = "permem"
    /\ fail \in {<<0, "none">>} \cup (PmNeeding \X {"llm", "save", "link"})
    /\ LET done  == IF fail[1] = 0 THEN PmNeeding
                    ELSE { x \in PmNeeding : x < fail[1] }
           base  == Cardinality(pmSnapshots)
           snap(m) == base + Rank(m, done) + 1
           orphan == IF fail[2] = "link" THEN {base + Cardinality(done) + 1} ELSE {}
       IN /\ Cardinality(pmSnapshots) + Cardinality(done) + Cardinality(orphan)
                <= PmMaxSnap
          /\ pmSnapshots' = pmSnapshots \cup { snap(m) : m \in done } \cup orphan
          /\ pmLinks' = pmLinks \cup { <<m, snap(m)>> : m \in done }
    /\ pmResult' = IF fail[1] = 0 THEN "ok" ELSE "raised"
    /\ hPmQuiet' = IF fail[1] = 0 THEN TRUE ELSE hPmQuiet
    /\ hPmRepeat' = (hPmRepeat \/ hPmQuiet)
    /\ UNCHANGED pmMemories
    /\ UNCHANGED <<variant, clock, updVars, snapVars, retVars, extVars>>

(***************************************************************************)
(* core/memory/snapshot.py (SnapshotManager) over core/memory/storage.py   *)
(* (MemoryStorage), driven by core/processor/snapshot_processor.py: the    *)
(* objects core/memory/factory.py wires together.  No method of the        *)
(* storage suspends (its lock is a fresh asyncio.Lock each time, the file  *)
(* I/O is synchronous, and so is the LLM client), so every call is one     *)
(* step.  The storage directory is taken to be writable.                   *)
(***************************************************************************)
SmMaxMem  == 2       \* memories ever added
SmMaxSnap == 2       \* snapshots ever created
SmMaxMeta == 2       \* meta snapshots ever created

\* The retention of cleanup_old_memories (`days`, 30 by default), in ticks.
CleanupDays == 1

SmMemIds  == 1..SmMaxMem
SmSnapIds == 1..SmMaxSnap

InitSm ==
    /\ smMemories = {}
    /\ smSnapshots = {}
    /\ smMeta = {}
    /\ stMemories = {}
    /\ stSnapshots = {}
    /\ stMeta = {}
    /\ smIds = [mem |-> 0, snap |-> 0, meta |-> 0]
    /\ smResult = <<"none", "none">>

Ids(recs) == { r.id : r \in recs }

\* MemoryStorage.save_*: the file is written; the index gets an entry, with
\* the time of the call, unless it has one for the id.
Save(index, rec) ==
    IF rec.id \in Ids(index) THEN index ELSE index \cup {rec}

\* SnapshotManager.add_memory (of a BaseMemory.create, whose id is a uuid4).
SmAddMemory ==
    /\ variant = "snap"
    /\ smIds.mem < SmMaxMem
    /\ LET id == smIds.mem + 1
       IN /\ smMemories' = smMemories \cup {id}
          /\ stMemories' = Save(stMemories, [id |-> id, ts |-> clock])
          /\ smIds' = [smIds EXCEPT !.mem = id]
    /\ smResult' = <<"add_memory", "ok">>
    /\ UNCHANGED <<smSnapshots, smMeta, stSnapshots, stMeta>>
    /\ UNCHANGED <<variant, clock, updVars, pmVars, retVars, extVars>>

\* A faulty variant of the two validation loops: nothing is checked.
AnyIds(ids, known) == TRUE

\* The validation loop of create_snapshot and of create_meta_snapshot:
\* TRUE when no id makes it raise ValueError.
AllKnown(ids, known) == \A i \in ids : i \in known

\* The body of SnapshotManager.create_snapshot, its outcome written to smResult.
CreateSnapshot(memory_ids) ==
    IF ~AllKnown(memory_ids, smMemories)
    THEN /\ smResult' = <<"create_snapshot", "ValueError">>
         /\ UNCHANGED <<smSnapshots, stSnapshots, smIds>>
    ELSE LET id == smIds.snap + 1
         IN /\ smSnapshots' = smSnapshots \cup {[id |-> id, refs |-> memory_ids]}
            /\ stSnapshots' = Save(stSnapshots,
                                   [id |-> id, refs |-> memory_ids, ts |-> clock])
            /\ smIds' = [smIds EXCEPT !.snap = id]
            /\ smResult' = <<"create_snapshot", "ok">>

\* SnapshotManager.create_snapshot called with any list of memory ids.
SmCreateSnapshot(memory_ids) ==
    /\ variant = "snap"
    /\ smIds.snap < SmMaxSnap
    /\ CreateSnapshot(memory_ids)
    /\ UNCHANGED <<smMemories, smMeta, stMemories, stMeta>>
    /\ UNCHANGED <<variant, clock, updVars, pmVars, retVars, extVars>>

\* SnapshotManager.create_meta_snapshot called with any list of snapshot ids.
SmCreateMetaSnapshot(snapshot_ids) ==
    /\ variant = "snap"
    /\ smIds.meta < SmMaxMeta
    /\ IF ~AllKnown(snapshot_ids, Ids(smSnapshots))
       THEN /\ smResult' = <<"create_meta_snapshot", "ValueError">>
            /\ UNCHANGED <<smMeta, stMeta, smIds>>
       ELSE LET id == smIds.meta + 1
            IN /\ smMeta' = smMeta \cup {[id |-> id, refs |-> snapshot_ids]}
               /\ stMeta' = Save(stMeta,
                                 [id |-> id, refs |-> snapshot_ids, ts |-> clock])
               /\ smIds' = [smIds EXCEPT !.meta = id]
               /\ smResult' = <<"create_meta_snapshot", "ok">>
    /\ UNCHANGED <<smMemories, smSnapshots, stMemories, stSnapshots>>
    /\ UNCHANGED <<variant, clock, updVars, pmVars, retVars, extVars>>

\* MemoryStorage.cleanup_old_memories: what is left of an index; an entry
\* goes when its own timestamp is before the cutoff.
Kept(index, cutoff) == { r \in index : ~(r.ts < cutoff) }

\* SnapshotManager.cleanup_old_memories: the storage cleans its three
\* indexes, the manager empties its maps and loads them again from storage.
SmCleanup ==
    /\ variant = "snap"
    /\ LET cutoff == clock - CleanupDays
       IN /\ stMemories' = Kept(stMemories, cutoff)
          /\ stSnapshots' = Kept(stSnapshots, cutoff)
          /\ stMeta' = Kept(stMeta, cutoff)
    /\ smMemories' = Ids(stMemories')
    /\ smSnapshots' = { [id |-> r.id, refs |-> r.refs] : r \in stSnapshots' }
    /\ smMeta' = { [id |-> r.id, refs |-> r.refs] : r \in stMeta' }
    /\ smResult' = <<"cleanup_old_memories", "ok">>
    /\ UNCHANGED smIds
    /\ UNCHANGED <<variant, clock, updVars, pmVars, retVars, extVars>>

\* SnapshotProcessor.update_snapshots: nothing without memories; otherwise a
\* detail snapshot is generated from all memories (the generator raises when
\* the oracle's answer is empty) and create_snapshot is called with the ids
\* of all memories.
ProcUpdateSnapshots(generated) ==
    /\ variant = "snap"
    /\ smIds.snap < SmMaxSnap
    /\ hProcGenCalled' = (hProcGenCalled \/ ~NoMemories(smMemories))
    /\ IF NoMemories(smMemories)
       THEN /\ smResult' = <<"update_snapshots", "ok">>
            /\ UNCHANGED <<smSnapshots, stSnapshots, smIds>>
       ELSE IF ~generated
            THEN /\ smResult' = <<"update_snapshots", "raised">>
                 /\ UNCHANGED <<smSnapshots, stSnapshots, smIds>>
            ELSE /\ smSnapshots' = smSnapshots \cup
                        {[id |-> smIds.snap + 1, refs |-> smMemories]}
                 /\ stSnapshots' = Save(stSnapshots,
                        [id |-> smIds.snap + 1, refs |-> smMemories, ts |-> clock])
                 /\ smIds' = [smIds EXCEPT !.snap = smIds.snap + 1]
                 /\ smResult' = <<"update_snapshots", "ok">>
    /\ UNCHANGED <<smMemories, smMeta, stMemories, stMeta>>
    /\ UNCHANGED <<variant, clock, updVars, pmVars, retVars, pureVars, cacheVars,
                   hGenCalled, fnVars>>

(***************************************************************************)
(* core/retrieval (VectorStore, MemoryRetriever, BatchProcessor) under     *)
(* core/memory/memory_manager.py.  No method of VectorStore suspends;      *)
(* search_memories and process_memories suspend at asyncio.gather.  A text *)
(* stands for its topic, the embedding of a text is its topic, and a       *)
(* vector passes the threshold for a query when the topics are the same.   *)
(* The calls use the default top_k, threshold and context, so the cache    *)
(* key of a search is its query; the index stays shorter than top_k.       *)
(***************************************************************************)
NumTopics == 2       \* topics of texts
NumQueries == 1      \* queries, each the text of a topic
MaxIndex  == 2       \* vectors the index may hold
MaxBatch  == 2       \* memories of one add_memories_batch

\* MemoryRetriever.cache_ttl (3600 seconds), in ticks.
CacheTtl == 2

Topics == 1..NumTopics
Queries == 1..NumQueries

InitRet ==
    /\ vsIndex = <<>>
    /\ vsMemoryMap = {}
    /\ vsVectorCache = {}
    /\ rcCache = {}
    /\ spc = "idle"
    /\ sq = 0
    /\ sFound = {}
    /\ sResult = <<"none", {}>>
    /\ mbBatch = <<>>
    /\ mmResult = "none"
    /\ hCleared = FALSE
    /\ hInvalidated = FALSE
    /\ hOverlap = FALSE

\* SentenceTransformer.encode.
Embed(content) == content

\* The id MemoryManager makes for a memory: the time and len(vector_store),
\* plus the memory's place in its batch.
MemoryId(offset) == <<clock, Cardinality(vsMemoryMap) + offset>>

\* dict[key] = value on a dict kept as a set of records with field id.
Put(map, rec) == { r \in map : r.id # rec.id } \cup {rec}

\* VectorStore.add_memory on a store <<index, memory_map, vector_cache>>:
\* the vector is the cached one when the id has one, else the embedding of
\* the content, which is cached; it is added to the index and the maps.
StoreAdd(store, id, content) ==
    LET cached == { r \in store[3] : r.id = id }
        vec    == IF cached # {} THEN (CHOOSE r \in cached : TRUE).vec
                  ELSE Embed(content)
    IN <<Append(store[1], [id |-> id, vec |-> vec]),
         Put(store[2], [id |-> id, content |-> content]),
         Put(store[3], [id |-> id, vec |-> vec])>>

\* A faulty variant of the cache invalidation: the cache is kept.
KeptCache(cache) == cache

\* `self._cache.clear()` of MemoryRetriever.add_memory.
ClearedCache(cache) == {}

\* MemoryManager.add_memory: the retriever clears its cache and adds the
\* memory to the vector store; then _save_state calls retriever.save_state,
\* which MemoryRetriever does not have, and the call raises.
MmAddMemory(content) ==
    /\ variant = "ret"
    /\ Len(vsIndex) + Len(mbBatch) < MaxIndex
    /\ rcCache' = { [e EXCEPT !.preAdd = TRUE] : e \in ClearedCache(rcCache) }
    /\ LET store == StoreAdd(<<vsIndex, vsMemoryMap, vsVectorCache>>,
                             MemoryId(0), content)
       IN /\ vsIndex' = store[1]
          /\ vsMemoryMap' = store[2]
          /\ vsVectorCache' = store[3]
    /\ mmResult' = "AttributeError"
    /\ hCleared' = FALSE
    /\ hInvalidated' = (hInvalidated \/ rcCache # {})
    /\ hOverlap' = (hOverlap \/ spc = "merge")
    /\ UNCHANGED <<spc, sq, sFound, sResult, mbBatch>>
    /\ UNCHANGED <<variant, clock, updVars, pmVars, snapVars, extVars>>

\* MemoryManager.add_memories_batch up to the gather of process_memories:
\* the ids are made, one add_memory per memory is handed to gather.
MmBatchStart(contents) ==
    /\ variant = "ret"
    /\ mbBatch = <<>>
    /\ Len(vsIndex) + Len(contents) <= MaxIndex
    /\ mbBatch' = [i \in 1..Len(contents) |->
                     [id |-> MemoryId(i - 1), content |-> contents[i]]]
    /\ UNCHANGED <<vsIndex, vsMemoryMap, vsVectorCache, rcCache, spc, sq, sFound,
                   sResult, mmResult, hCleared, hInvalidated, hOverlap>>
    /\ UNCHANGED <<variant, clock, updVars, pmVars, snapVars, extVars>>

\* VectorStore.add_memory for each memory of a batch, in order.
RECURSIVE StoreAddAll(_, _)
StoreAddAll(store, batch) ==
    IF batch = <<>> THEN store
    ELSE StoreAddAll(StoreAdd(store, Head(batch).id, Head(batch).content),
                     Tail(batch))

\* The rest of add_memories_batch: the adds run one after the other on the
\* vector store (the retriever is not involved), process_memories returns,
\* and _save_state raises as it does in add_memory.
MmBatchRun ==
    /\ mbBatch # <<>>
    /\ LET store == StoreAddAll(<<vsIndex, vsMemoryMap, vsVectorCache>>, mbBatch)
       IN /\ vsIndex' = store[1]
          /\ vsMemoryMap' = store[2]
          /\ vsVectorCache' = store[3]
    /\ rcCache' = { [e EXCEPT !.preBatch = TRUE] : e \in rcCache }
    /\ mbBatch' = <<>>
    /\ mmResult' = "AttributeError"
    /\ hCleared' = FALSE
    /\ UNCHANGED <<spc, sq, sFound, sResult, hInvalidated, hOverlap>>
    /\ UNCHANGED <<variant, clock, updVars, pmVars, snapVars, extVars>>

\* The ids and the number of calls of VectorStore.add_memory when it is
\* called directly.
NumVsIds  == 2
VsMaxAdds == 4
VsIds == 1..NumVsIds

\* VectorStore.add_memory(memory_id, content), called with an id of the
\* caller's choice.
VsAddMemory(memory_id, content) ==
    /\ variant = "vector"
    /\ Len(vsIndex) < VsMaxAdds
    /\ LET store == StoreAdd(<<vsIndex, vsMemoryMap, vsVectorCache>>,
                             memory_id, content)
       IN /\ vsIndex' = store[1]
          /\ vsMemoryMap' = store[2]
          /\ vsVectorCache' = store[3]
    /\ hCleared' = FALSE
    /\ UNCHANGED <<rcCache, spc, sq, sFound, sResult, mbBatch, mmResult,
                   hInvalidated, hOverlap>>
    /\ UNCHANGED <<variant, clock, updVars, pmVars, snapVars, extVars>>

\* VectorStore.clear: the indexes, the maps and the vector cache are emptied.
VsClear ==
    /\ variant \in {"ret", "vector"}
    /\ vsIndex' = <<>>
    /\ vsMemoryMap' = {}
    /\ vsVectorCache' = {}
    /\ hCleared' = TRUE
    /\ UNCHANGED <<rcCache, spc, sq, sFound, sResult, mbBatch, mmResult,
                   hInvalidated, hOverlap>>
    /\ UNCHANGED <<variant, clock, updVars, pmVars, snapVars, extVars>>

\* MemoryManager.clear_all: it calls retriever.clear, which MemoryRetriever
\* does not have, and raises; nothing is cleared.
MmClearAll ==
    /\ variant = "ret"
    /\ mmResult' = "AttributeError"
    /\ UNCHANGED <<vsIndex, vsMemoryMap, vsVectorCache, rcCache, spc, sq, sFound,
                   sResult, mbBatch, hCleared, hInvalidated, hOverlap>>
    /\ UNCHANGED <<variant, clock, updVars, pmVars, snapVars, extVars>>

\* The cache test of search_memories: the entries that are served for q.
Hit(q) == { e \in rcCache : e.q = q /\ clock - e.ts < CacheTtl }

\* What search_memories returns from the cache.
Cached(q) == (CHOOSE e \in Hit(q) : TRUE).results

\* search_memories up to its gather: a cache entry younger than the ttl is
\* returned at once; otherwise the two searches are handed to gather.
SearchStart(q) ==
    /\ variant = "ret"
    /\ spc = "idle"
    /\ IF Hit(q) # {}
       THEN /\ sResult' = <<"cache", Cached(q)>>
            /\ UNCHANGED <<spc, sq>>
       ELSE /\ spc' = "gather"
            /\ sq' = q
            /\ UNCHANGED sResult
    /\ UNCHANGED <<vsIndex, vsMemoryMap, vsVectorCache, rcCache, sFound,
                   mbBatch, mmResult, hCleared, hInvalidated, hOverlap>>
    /\ UNCHANGED <<variant, clock, updVars, pmVars, snapVars, extVars>>

\* VectorStore.search: every vector of the index (there are fewer than
\* top_k) with the memory its id maps to and its score.
VectorResults(q) ==
    { [id |-> vsIndex[i].id, near |-> (vsIndex[i].vec = Embed(q))] :
        i \in 1..Len(vsIndex) }

\* The two searches of the gather run.  On an empty index the vector search
\* asks faiss for 0 neighbours: faiss either raises, search_memories then
\* returns [] from its except branch, or answers with nothing.  The meta
\* index is never filled, so the meta search contributes nothing.
SearchVector(raises) ==
    /\ spc = "gather"
    /\ IF vsIndex = <<>> /\ raises
       THEN /\ spc' = "idle"
            /\ sq' = 0
            /\ sResult' = <<"except", {}>>
            /\ UNCHANGED sFound
       ELSE /\ spc' = "merge"
            /\ sFound' = VectorResults(sq)
            /\ UNCHANGED <<sq, sResult>>
    /\ UNCHANGED <<vsIndex, vsMemoryMap, vsVectorCache, rcCache,
                   mbBatch, mmResult, hCleared, hInvalidated>>
    /\ hOverlap' = FALSE
    /\ UNCHANGED <<variant, clock, updVars, pmVars, snapVars, extVars>>

\* _merge_search_results and the threshold filter: an id keeps the score of
\* its last, lowest-scored result, memories that have left memory_map are
\* dropped, and what passes the threshold is the result.
Merged(found) ==
    { id \in Ids(found) :
        /\ \A r \in found : r.id = id => r.near
        /\ id \in Ids(vsMemoryMap) }

\* _cleanup_cache: entries older than the ttl are deleted.
CleanedUp(cache) == { e \in cache : ~(clock - e.ts > CacheTtl) }

\* search_memories after its gather: merge, filter, write the cache entry,
\* create the _cleanup_cache task and return; the task runs
\* as soon as search_memories has returned.
SearchMerge ==
    /\ spc = "merge"
    /\ rcCache' = CleanedUp({ e \in rcCache : e.q # sq } \cup
                            {[q |-> sq, results |-> Merged(sFound), ts |-> clock,
                              preAdd |-> FALSE, preBatch |-> FALSE]})
    /\ sResult' = <<"computed", Merged(sFound)>>
    /\ spc' = "idle"
    /\ sq' = 0
    /\ sFound' = {}
    /\ UNCHANGED <<vsIndex, vsMemoryMap, vsVectorCache, mbBatch, mmResult,
                   hCleared, hInvalidated>>
    /\ hOverlap' = FALSE
    /\ UNCHANGED <<variant, clock, updVars, pmVars, snapVars, extVars>>

\* The lists of contents add_memories_batch is called with.
Batches == UNION { [1..n -> Topics] : n \in 1..MaxBatch }

(***************************************************************************)
(* Relevance evaluation: SnapshotProcessor.get_relevant_memories and       *)
(* MemorySearcher._evaluate_memories read the answer of the language       *)
(* model.  Scores are counted in tenths: 5 is 0.5, 10 is 1.0.              *)
(***************************************************************************)
JMaxMem == 2
JMaxEntries == 2
Threshold == 5
MinRelevance == 6
ScoreMax == 10

JIds == 1..JMaxMem

\* The values a relevance_score can have in a parsed JSON document: a number,
\* a string float() can read, a string it cannot read, null, an integer too
\* large for a float, or no such key.
JScores ==
    {[kind |-> "number", v |-> x] : x \in {0 - 2, 3, 5, 10, 17}}
        \cup {[kind |-> "string", v |-> 8]}
        \cup {[kind |-> k, v |-> 0] : k \in {"text", "null", "huge", "missing"}}

\* One element of relevant_memories: a JSON object with some of the three
\* keys (id 0: no memory_id), or a value that is no object.
JEntries ==
    [dict : {TRUE}, id : 0..JMaxMem, score : JScores, reason : BOOLEAN]
        \cup {[dict |-> FALSE, id |-> 0,
               score |-> [kind |-> "missing", v |-> 0], reason |-> FALSE]}

\* What generate_json returns: the error object of its except branch, or a
\* parsed document: the expected object, the bare array, an object that
\* holds the entries under another key, or one whose relevant_memories is
\* an object keyed by position.
JShapes == {"ok", "barelist", "nokey", "nonlist"}

JResponses ==
    {[shape |-> "error", entries |-> <<>>]}
        \cup [shape : JShapes,
              entries : UNION {[1..n -> JEntries] : n \in 0..JMaxEntries}]

JIdle == [done |-> FALSE, list |-> <<>>]

\* The values SearchConfig.min_relevance is configured with: the default
\* and 0.
MinRelevances == {0, MinRelevance}

JudgeIdle ==
    /\ jQuery = FALSE
    /\ jMemories = {}
    /\ jResponse = [shape |-> "error", entries |-> <<>>]
    /\ jOut = JIdle
    /\ jsOut = JIdle
    /\ jMinRelevance = MinRelevance

InitJudge ==
    /\ jQuery \in BOOLEAN
    /\ jMemories \in SUBSET JIds
    /\ jResponse \in JResponses
    /\ jOut = JIdle
    /\ jsOut = JIdle
    /\ jMinRelevance \in MinRelevances

\* float(x): the value, or the exception it raises.
FloatOf(score) ==
    CASE score.kind \in {"number", "string"} -> [exc |-> "none", v |-> score.v]
      [] score.kind = "text" -> [exc |-> "ValueError", v |-> 0]
      [] score.kind = "huge" -> [exc |-> "OverflowError", v |-> 0]
      [] OTHER -> [exc |-> "TypeError", v |-> 0]

AnyShape(result) == TRUE

\* isinstance(result, dict), 'relevant_memories' in result, and the value
\* is a list.
WellFormed(result) == result.shape = "ok"

AnyRange(v) == TRUE

InRange(v) == 0 <= v /\ v <= ScoreMax

\* One pass of the loop body of get_relevant_memories: "keep" appends,
\* "skip" continues, "raise" leaves the loop with an exception the inner
\* except clause (TypeError, ValueError, KeyError) does not catch.
ProcEntry(e, memories) ==
    IF ~e.dict THEN "skip"
    ELSE IF e.id = 0 \/ e.score.kind = "missing" \/ ~e.reason THEN "skip"
    ELSE IF e.id \notin memories THEN "skip"
    ELSE LET f == FloatOf(e.score) IN
         IF f.exc \in {"TypeError", "ValueError", "KeyError"} THEN "skip"
         ELSE IF f.exc # "none" THEN "raise"
         ELSE IF ~InRange(f.v) THEN "skip"
         ELSE IF f.v >= Threshold THEN "keep"
         ELSE "skip"

RECURSIVE ProcLoop(_, _)
ProcLoop(entries, memories) ==
    IF entries = <<>> THEN [raised |-> FALSE, valid |-> <<>>]
    ELSE LET e == Head(entries)
             o == ProcEntry(e, memories)
             rest == ProcLoop(Tail(entries), memories)
         IN  IF o = "raise" THEN [raised |-> TRUE, valid |-> <<>>]
             ELSE IF rest.raised THEN rest
             ELSE [raised |-> FALSE,
                   valid |-> IF o = "keep"
                             THEN <<<<e.id, FloatOf(e.score).v>>>> \o rest.valid
                             ELSE rest.valid]

RECURSIVE InsertDesc(_, _)
InsertDesc(x, sorted) ==
    IF sorted = <<>> THEN <<x>>
    ELSE IF Head(sorted)[2] >= x[2]
         THEN <<Head(sorted)>> \o InsertDesc(x, Tail(sorted))
         ELSE <<x>> \o sorted

Unsorted(list) == list

\* list.sort(key=lambda x: x[1], reverse=True): stable, largest score first.
RECURSIVE SortDesc(_)
SortDesc(list) ==
    IF list = <<>> THEN <<>>
    ELSE InsertDesc(list[Len(list)], SortDesc(SubSeq(list, 1, Len(list) - 1)))

\* get_relevant_memories: the outer except turns every exception into [].
GetRelevantMemories(query, memories, result) ==
    IF ~query THEN <<>>
    ELSE IF memories = {} THEN <<>>
    ELSE IF ~WellFormed(result) THEN <<>>
    ELSE LET r == ProcLoop(result.entries, memories) IN
         IF r.raised THEN <<>> ELSE SortDesc(r.valid)

ProcGetRelevant ==
    /\ variant = "judge"
    /\ ~jOut.done
    /\ jOut' = [done |-> TRUE,
                list |-> GetRelevantMemories(jQuery, jMemories, jResponse)]
    /\ UNCHANGED <<jQuery, jMemories, jResponse, jsOut, jMinRelevance>>
    /\ UNCHANGED <<baseVars, searchVars, genVars, saveVars, chatVars, cacheVars, genCallVars, fnVars>>

\* float(memory_result.get("relevance_score", 0.0)): a missing key reads 0.0.
SearcherFloat(e) ==
    IF e.score.kind = "missing" THEN [exc |-> "none", v |-> 0] ELSE FloatOf(e.score)

\* relevance_score of _evaluate_memories: a score float() cannot read
\* (TypeError, ValueError) or one outside [0, 1] becomes 0.0.
SearcherScore(e) ==
    IF SearcherFloat(e).exc \in {"TypeError", "ValueError"} THEN 0
    ELSE IF InRange(SearcherFloat(e).v) THEN SearcherFloat(e).v ELSE 0

\* One pass of the loop body of _evaluate_memories: the score is compared
\* with min_relevance; every other exception is caught and skips the entry.
SearcherEntry(e, memories) ==
    IF ~e.dict THEN "skip"
    ELSE IF e.id = 0 THEN "skip"
    ELSE IF e.id \notin memories THEN "skip"
    ELSE IF SearcherFloat(e).exc \notin {"none", "TypeError", "ValueError"} THEN "skip"
    ELSE IF SearcherScore(e) < jMinRelevance THEN "skip"
    ELSE "keep"

RECURSIVE SearcherLoop(_, _)
SearcherLoop(entries, memories) ==
    IF entries = <<>> THEN <<>>
    ELSE LET e == Head(entries) IN
         (IF SearcherEntry(e, memories) = "keep"
          THEN <<<<e.id, SearcherScore(e)>>>> ELSE <<>>)
             \o SearcherLoop(Tail(entries), memories)

\* _evaluate_memories on the value generate_json handed back; a coroutine
\* object (generate_json called without await) makes json.dumps raise,
\* and the outer except returns [].
EvaluateMemories(memories, result) ==
    IF memories = {} THEN <<>>
    ELSE IF result.shape = "coroutine" THEN <<>>
    ELSE IF ~WellFormed(result) THEN <<>>
    ELSE SearcherLoop(result.entries, memories)

SearcherEvaluate(result) ==
    /\ variant = "judge"
    /\ ~jsOut.done
    /\ jsOut' = [done |-> TRUE, list |-> EvaluateMemories(jMemories, result)]
    /\ UNCHANGED <<jQuery, jMemories, jResponse, jOut, jMinRelevance>>
    /\ UNCHANGED <<baseVars, searchVars, genVars, saveVars, chatVars, cacheVars, genCallVars, fnVars>>

(***************************************************************************)
(* VectorStore.search as a function of the index content, top_k and        *)
(* threshold.  Scores are counted in thousandths, importance in tenths.    *)
(***************************************************************************)
SvMaxIndex == 3
SvMaxTopK == 2
ScoreUnit == 1000

SvDistances == {0, 1, 3}
SvImportances == {0 - 1, 0, 5}
SvThresholds == {300, 600}

SvEntries == [dist : SvDistances, importance : SvImportances]

SearchIdle ==
    /\ svIndex = <<>>
    /\ svTopK = 1
    /\ svThreshold = 600
    /\ svOut = [how |-> "none", list |-> <<>>]

InitSearch ==
    /\ svIndex \in UNION {[1..n -> SvEntries] : n \in 0..SvMaxIndex}
    /\ svTopK \in 1..SvMaxTopK
    /\ svThreshold \in SvThresholds
    /\ svOut = [how |-> "none", list |-> <<>>]

\* The entry of the index nearest to the query among the positions left:
\* smallest distance, first added on a tie.
NearestOf(index, left) ==
    CHOOSE i \in left :
        \A j \in left : \/ index[i].dist < index[j].dist
                        \/ (index[i].dist = index[j].dist /\ i <= j)

\* faiss IndexFlatL2.search(vector, k): the k nearest entries, nearest first.
RECURSIVE FaissSearch(_, _, _)
FaissSearch(index, left, k) ==
    IF k = 0 \/ left = {} THEN <<>>
    ELSE LET i == NearestOf(index, left) IN
         <<i>> \o FaissSearch(index, left \ {i}, k - 1)

Min(a, b) == IF a < b THEN a ELSE b

\* similarity = 1 / (1 + score)
Similarity(dist) == ScoreUnit \div (1 + dist)

\* final_score = similarity * (1 + importance * 0.2) when the metadata
\* holds an importance.
FinalScore(entry) ==
    IF entry.importance >= 0
    THEN (Similarity(entry.dist) * (50 + entry.importance)) \div 50
    ELSE Similarity(entry.dist)

\* The body of VectorStore.search between the query vector and the return.
VectorSearch(index, top_k, threshold) ==
    LET found == FaissSearch(index, DOMAIN index, Min(top_k * 2, Len(index)))
        results == [n \in DOMAIN found |-> <<found[n], FinalScore(index[found[n]])>>]
    IN  SortDesc(results)

\* raises: model.encode or the index search raised; search logs and re-raises.
VsSearch(raises) ==
    /\ variant = "search"
    /\ svOut.how = "none"
    /\ svOut' = IF raises THEN [how |-> "raised", list |-> <<>>]
                ELSE [how |-> "returned",
                      list |-> VectorSearch(svIndex, svTopK, svThreshold)]
    /\ UNCHANGED <<svIndex, svTopK, svThreshold>>
    /\ UNCHANGED <<baseVars, judgeVars, genVars, saveVars, chatVars, cacheVars, genCallVars, fnVars>>

(***************************************************************************)
(* SnapshotGenerator.generate_detail_snapshot and generate_meta_snapshot   *)
(* over LLMService.generate_json.                                          *)
(***************************************************************************)
GMaxRefs == 2

DetailFields == {"key_points", "category", "importance"}
MetaFields == {"category", "keywords", "description"}
GFields == DetailFields \cup MetaFields

\* What the completion holds once parsed: a JSON object with some keys,
\* null, a non-empty array, or text json.loads rejects.
GDocs ==
    [shape : {"object"}, keys : SUBSET GFields]
        \cup {[shape |-> sh, keys |-> {}] : sh \in {"null", "array", "invalid"}}

\* client.chat.completions.create raises, or delivers a completion.
GReplies ==
    {[call |-> "raises", doc |-> [shape |-> "null", keys |-> {}]]}
        \cup [call : {"ok"}, doc : GDocs]

GenIdle ==
    /\ gKind = "detail"
    /\ gRefs = {}
    /\ gReply = [call |-> "raises", doc |-> [shape |-> "null", keys |-> {}]]
    /\ gOut = [how |-> "none", defaults |-> {}, refs |-> {}]

InitGen ==
    /\ gKind \in {"detail", "meta"}
    /\ gRefs \in {S \in SUBSET (1..GMaxRefs) : S # {}}
    /\ gReply \in GReplies
    /\ gOut = [how |-> "none", defaults |-> {}, refs |-> {}]

\* generate_json: the parsed completion, or {'error': msg} for anything
\* raised by the call or by json.loads.
GenerateJson(reply) ==
    IF reply.call = "raises" \/ reply.doc.shape = "invalid"
    THEN [shape |-> "object", keys |-> {"error"}]
    ELSE reply.doc

\* bool(result)
Truthy(result) ==
    CASE result.shape = "object" -> result.keys # {}
      [] result.shape = "array" -> TRUE
      [] OTHER -> FALSE

Required(kind) == IF kind = "detail" THEN DetailFields ELSE MetaFields

\* generate_detail_snapshot / generate_meta_snapshot after the prompt is
\* built: a falsy result raises, result.get on a value that is no dict
\* raises, and every key the result lacks takes the default of its get.
GenerateSnapshot(kind, refs, result) ==
    IF ~Truthy(result) THEN [how |-> "raised", defaults |-> {}, refs |-> {}]
    ELSE IF result.shape # "object"
         THEN [how |-> "raised", defaults |-> {}, refs |-> {}]
    ELSE [how |-> "returned",
          defaults |-> Required(kind) \ result.keys,
          refs |-> refs]

GenGenerate ==
    /\ variant = "gen"
    /\ gOut.how = "none"
    /\ gOut' = GenerateSnapshot(gKind, gRefs, GenerateJson(gReply))
    /\ UNCHANGED <<gKind, gRefs, gReply>>
    /\ UNCHANGED <<baseVars, judgeVars, searchVars, saveVars, chatVars, cacheVars, genCallVars, fnVars>>

(***************************************************************************)
(* Saving a memory: MemoryStorage.save_memory and FileMemoryStore.add,     *)
(* with file writes that can fail.  A file opened for writing exists from  *)
(* then on; a write that fails after the open leaves it partial.           *)
(***************************************************************************)
SaveMaxMem == 2

SaveIds == 1..SaveMaxMem

\* Where a save can fail: nowhere, opening the record file, writing it
\* (json.dump), opening the index file, writing it.
SaveFaults == {"none", "record_open", "record_write", "index_open", "index_write"}

InitSave ==
    /\ msFiles = [i \in SaveIds |-> "none"]
    /\ msIndex = {}
    /\ msIndexFile = [ok |-> TRUE, ids |-> {}]
    /\ msResult = "none"
    /\ faFiles = [i \in SaveIds |-> "none"]
    /\ faIndex = {}
    /\ faIndexFiles = [i \in SaveIds |-> "none"]
    /\ faResult = "none"

\* `with open(path, 'w') as f: json.dump(data, f)` on one file of a
\* directory of files.
WriteFile(files, id, open_fails, write_fails) ==
    IF open_fails THEN files
    ELSE IF write_fails THEN [files EXCEPT ![id] = "partial"]
    ELSE [files EXCEPT ![id] = "whole"]

\* _save_index: the whole index is written to index.json; every exception
\* is logged and swallowed.
SaveIndex(file, index, fault) ==
    IF fault = "index_open" THEN file
    ELSE IF fault = "index_write" THEN [ok |-> FALSE, ids |-> {}]
    ELSE [ok |-> TRUE, ids |-> index]

\* MemoryStorage.save_memory; the lock it takes is a new one each call and
\* is never waited for.
MsSaveMemory(id, fault) ==
    /\ variant = "save"
    /\ msFiles' = WriteFile(msFiles, id, fault = "record_open",
                            fault = "record_write")
    /\ IF fault \in {"record_open", "record_write"}
       THEN /\ msResult' = "raised"
            /\ UNCHANGED <<msIndex, msIndexFile>>
       ELSE /\ msResult' = "returned"
            /\ IF id \notin msIndex
               THEN /\ msIndex' = msIndex \cup {id}
                    /\ msIndexFile' = SaveIndex(msIndexFile, msIndex \cup {id}, fault)
               ELSE UNCHANGED <<msIndex, msIndexFile>>
    /\ UNCHANGED <<faFiles, faIndex, faIndexFiles, faResult>>
    /\ UNCHANGED <<baseVars, judgeVars, searchVars, genVars, chatVars, cacheVars, genCallVars, fnVars>>

\* FileMemoryStore.add: one index file per memory, written by
\* _save_memory_snapshot_index, which swallows every exception; add
\* returns False where save_memory raises.
FaAdd(id, fault) ==
    /\ variant = "save"
    /\ faFiles' = WriteFile(faFiles, id, fault = "record_open",
                            fault = "record_write")
    /\ IF fault \in {"record_open", "record_write"}
       THEN /\ faResult' = "false"
            /\ UNCHANGED <<faIndex, faIndexFiles>>
       ELSE /\ faResult' = "true"
            /\ IF id \notin faIndex
               THEN /\ faIndex' = faIndex \cup {id}
                    /\ faIndexFiles' = WriteFile(faIndexFiles, id,
                                                 fault = "index_open",
                                                 fault = "index_write")
               ELSE UNCHANGED <<faIndex, faIndexFiles>>
    /\ UNCHANGED <<msFiles, msIndex, msIndexFile, msResult>>
    /\ UNCHANGED <<baseVars, judgeVars, searchVars, genVars, chatVars, cacheVars, genCallVars, fnVars>>

(***************************************************************************)
(* A chat turn: ChatManager.chat over LLMService.chat, and the storage     *)
(* task it creates.  The completion client is synchronous, so chat runs    *)
(* from its call to its return without giving way to another coroutine.    *)
(***************************************************************************)
ChMaxTurns == 3
HistMaxTurns == 11
NumChatQueries == 2
HistoryLimit == 20

ChatQueries == 1..NumChatQueries

InitChat ==
    /\ chTurn = 0
    /\ chHistory = <<>>
    /\ chStore = <<>>
    /\ chSnaps = {}
    /\ chPending = <<>>
    /\ chResult = "none"
    /\ hFailedTurns = {}
    /\ hLookupRaised = FALSE
    /\ hLog = <<>>
    /\ hClearedTurn = 0

\* LLMService.chat: the reply of the model, or the apology its inner
\* except returns when client.chat.completions.create raises.
LlmChat(raises) == IF raises THEN "apology" ELSE "reply"

\* A faulty variant of the truncation: the oldest entries are kept.
FirstOf(seq, n) == IF Len(seq) > n THEN SubSeq(seq, 1, n) ELSE seq

\* self.history = self.history[-20:]
LastOf(seq, n) ==
    IF Len(seq) > n THEN SubSeq(seq, Len(seq) - n + 1, Len(seq)) ELSE seq

\* _add_to_history
TurnEntries(turn, query, response) ==
    <<[turn |-> turn, content |-> <<"query", query>>, is_user |-> TRUE],
      [turn |-> turn, content |-> <<response, query>>, is_user |-> FALSE]>>

AddToHistory(history, turn, query, response) ==
    LastOf(history \o TurnEntries(turn, query, response), HistoryLimit)

\* The chat calls a specification follows: a few with their storage tasks,
\* or enough of them to fill the history.
TurnBound == IF variant = "history" THEN HistMaxTurns ELSE ChMaxTurns

\* ChatManager.chat.  before: what raises ahead of the reply, "lookup"
\* (get_relevant_snapshots) or "api" (the API calls of the context), or
\* "none"; the outer except answers a raise.  raises: the completion call
\* of LLMService.chat raises.
Chat(query, before, raises) ==
    /\ variant \in {"chat", "history", "clear"}
    /\ chTurn < TurnBound
    /\ chTurn' = chTurn + 1
    /\ hLookupRaised' = (before = "lookup")
    /\ IF before # "none"
       THEN /\ chResult' = "error"
            /\ UNCHANGED <<chHistory, chPending, hFailedTurns, hLog>>
       ELSE /\ chResult' = LlmChat(raises)
            /\ hLog' = hLog \o TurnEntries(chTurn + 1, query, LlmChat(raises))
            /\ chHistory' = AddToHistory(chHistory, chTurn + 1, query, LlmChat(raises))
            /\ chPending' = Append(chPending, [turn |-> chTurn + 1, query |-> query,
                                               response |-> LlmChat(raises)])
            /\ hFailedTurns' = IF raises THEN hFailedTurns \cup {chTurn + 1}
                               ELSE hFailedTurns
    /\ UNCHANGED <<chStore, chSnaps, hClearedTurn>>
    /\ UNCHANGED <<baseVars, judgeVars, searchVars, genVars, saveVars, cacheVars, genCallVars, fnVars>>

\* A faulty variant of the task's except clause: the failure of the storage
\* task replaces the reply of the turn.
ReplyLostOnFault(result, fault) == IF fault = "none" THEN result ELSE "error"

\* `except Exception: chat_logger.error(...)` in _process_storage: the task
\* ends, and what chat returned stays what it was.
ReplyAfterStorage(result, fault) == result

\* _process_storage, the oldest task first.  fault: which of its three
\* writes raises ("query", "response", "snapshot"), or "none"; the except
\* clause logs and ends the task.
ProcessStorage(fault) ==
    /\ variant \in {"chat", "clear"}
    /\ chPending # <<>>
    /\ LET t == Head(chPending)
           q == [turn |-> t.turn, content |-> <<"query", t.query>>, is_user |-> TRUE]
           r == [turn |-> t.turn, content |-> <<t.response, t.query>>, is_user |-> FALSE]
       IN  /\ chStore' = CASE fault = "query" -> chStore
                           [] fault = "response" -> Append(chStore, q)
                           [] OTHER -> chStore \o <<q, r>>
           /\ chSnaps' = IF fault = "none" THEN chSnaps \cup {t.turn} ELSE chSnaps
    /\ chPending' = Tail(chPending)
    /\ chResult' = ReplyAfterStorage(chResult, fault)
    /\ UNCHANGED <<chTurn, chHistory, hFailedTurns, hLookupRaised, hLog,
                   hClearedTurn>>
    /\ UNCHANGED <<baseVars, judgeVars, searchVars, genVars, saveVars, cacheVars, genCallVars, fnVars>>

\* ChatManager.clear_all: MemoryStorage.clear_all deletes every row and
\* commits, then the history is cleared; when the storage raises it has
\* rolled back, nothing is cleared and the exception is raised again.  The
\* _process_storage tasks that are pending stay pending.
ClearAll(fails) ==
    /\ variant = "clear"
    /\ IF fails
       THEN UNCHANGED <<chStore, chSnaps, chHistory, hClearedTurn>>
       ELSE /\ chStore' = <<>>
            /\ chSnaps' = {}
            /\ chHistory' = <<>>
            /\ hClearedTurn' = chTurn
    /\ chResult' = IF fails THEN "raised" ELSE "cleared"
    /\ UNCHANGED <<chTurn, chPending, hFailedTurns, hLookupRaised, hLog>>
    /\ UNCHANGED <<baseVars, judgeVars, searchVars, genVars, saveVars, cacheVars, genCallVars, fnVars>>

(***************************************************************************)
(* core/retrieval/memory_retriever.py: search_memories and its helpers     *)
(***************************************************************************)
NumMrIds    == 2     \* memory ids
MrMaxVector == 2     \* entries the memory index returns
MrMaxMeta   == 1     \* entries the meta index returns
MrMaxTopK   == 2     \* largest top_k

MrIds == 1..NumMrIds

\* Scores in thousandths.
MrScores     == {0, 400, 800}
MrMetaScores == {400, 800}
MrThresholds == {300, 600}

\* The age of a memory's timestamp in days.  -1 is a timestamp a day or
\* more ahead of datetime.now().
MrAges == {-1, 0, 2}

\* A memory of memory_map: its timestamp and metadata.user_id (0: none).
MrMemories == [present : {TRUE}, age : MrAges, user : {0, 1}]
MrNone == [present |-> FALSE, age |-> 0, user |-> 0]

MrLists(ids, scores, n) ==
    UNION { [1..k -> { <<i, sc>> : i \in ids, sc \in scores }] : k \in 0..n }

MrIdle ==
    /\ mrMap = [i \in MrIds |-> MrNone]
    /\ mrVector = <<>>
    /\ mrMeta = <<>>
    /\ mrTopK = 1
    /\ mrThreshold = 0
    /\ mrContext = "none"
    /\ mrCache = <<>>
    /\ mrOut = <<"none", <<>>>>

InitMr ==
    /\ mrMap \in [MrIds -> MrMemories \cup {MrNone}]
    /\ mrVector \in MrLists(MrIds, MrScores, MrMaxVector)
    /\ mrMeta \in MrLists(MrIds, MrMetaScores, MrMaxMeta)
    /\ mrTopK \in 1..MrMaxTopK
    /\ mrThreshold \in MrThresholds
    /\ mrContext \in {"none", "user", "other"}
    /\ mrCache = <<>>
    /\ mrOut = <<"none", <<>>>>

\* A dict as the sequence of its <<key, value>> items in insertion order.
DictHas(d, key) == \E i \in DOMAIN d : d[i][1] = key

\* d.get(key, default)
DictGet(d, key, default) ==
    IF DictHas(d, key) THEN d[CHOOSE i \in DOMAIN d : d[i][1] = key][2]
    ELSE default

\* d[key] = value
DictSet(d, key, value) ==
    IF DictHas(d, key)
    THEN [i \in DOMAIN d |-> IF d[i][1] = key THEN <<key, value>> ELSE d[i]]
    ELSE Append(d, <<key, value>>)

Max(a, b) == IF a > b THEN a ELSE b

\* `for memory, score in vector_results: memory_scores[memory_id] = score`
RECURSIVE VectorLoop(_, _)
VectorLoop(d, list) ==
    IF list = <<>> THEN d
    ELSE VectorLoop(DictSet(d, Head(list)[1], Head(list)[2]), Tail(list))

\* `for memory, score in meta_results:
\*      memory_scores[memory_id] = max(memory_scores.get(memory_id, 0), score)`
RECURSIVE MetaLoop(_, _)
MetaLoop(d, list) ==
    IF list = <<>> THEN d
    ELSE MetaLoop(DictSet(d, Head(list)[1],
                          Max(DictGet(d, Head(list)[1], 0), Head(list)[2])),
                  Tail(list))

\* The last loop of _merge_search_results: it stops at top_k results and
\* skips the ids get_memory knows nothing of.
RECURSIVE TakeLoop(_, _, _)
TakeLoop(items, top_k, results) ==
    IF items = <<>> \/ Len(results) >= top_k THEN results
    ELSE TakeLoop(Tail(items), top_k,
                  IF mrMap[Head(items)[1]].present
                  THEN Append(results, Head(items)) ELSE results)

\* _merge_search_results
MergeSearchResults(vector_results, meta_results, top_k) ==
    TakeLoop(SortDesc(MetaLoop(VectorLoop(<<>>, vector_results), meta_results)),
             top_k, <<>>)

\* time_factor = 1.0 / (1.0 + math.log1p(age in days)), in thousandths.
TimeFactor(age) == IF age = 0 THEN 1000 ELSE IF age = 1 THEN 591 ELSE 477

\* math.log1p raises ValueError at -1 and below.
RerankRaises(results) ==
    \E i \in DOMAIN results : mrMap[results[i][1]].age <= -1

\* The final score _rerank_with_context gives one memory: the time decay,
\* then the factor 1.2 when the context names the memory's user.
FinalOf(id, score, context) ==
    LET decayed == (score * TimeFactor(mrMap[id].age)) \div 1000
    IN IF context = "user" /\ mrMap[id].user = 1
       THEN (decayed * 12) \div 10 ELSE decayed

\* _rerank_with_context: its except branch returns the results as given.
RerankWithContext(results, context) ==
    IF RerankRaises(results) THEN results
    ELSE SortDesc([i \in DOMAIN results |->
                     <<results[i][1], FinalOf(results[i][1], results[i][2], context)>>])

\* _search_meta_snapshots: the memories of the meta snapshots found, those
\* get_memory knows, with nine tenths of the meta snapshot's score.
RECURSIVE SearchMetaSnapshots(_)
SearchMetaSnapshots(found) ==
    IF found = <<>> THEN <<>>
    ELSE (IF mrMap[Head(found)[1]].present
          THEN <<<<Head(found)[1], (Head(found)[2] * 9) \div 10>>>> ELSE <<>>)
         \o SearchMetaSnapshots(Tail(found))

\* A faulty variant of the threshold filter: everything passes.
AllPassing(results, threshold) == results

\* `[(memory, score) for memory, score in combined_results if score >= threshold]`
Passing(results, threshold) ==
    SelectSeq(results, LAMBDA r : r[2] >= threshold)

\* list[:top_k]
Take(list, top_k) == SubSeq(list, 1, Min(top_k, Len(list)))

\* What search_memories computes when the cache has nothing for it.
\* VectorStore.search looks each id found up in memory_map and sorts;
\* an id memory_map lacks raises there and search_memories returns [].
ComputeSearch(found, meta_found, top_k, threshold, context) ==
    IF \E i \in DOMAIN found : ~mrMap[found[i][1]].present THEN <<>>
    ELSE LET combined == MergeSearchResults(SortDesc(found),
                                            SearchMetaSnapshots(meta_found), top_k)
             reranked == IF context # "none"
                         THEN RerankWithContext(combined, context)
                         ELSE combined
         IN Take(Passing(reranked, threshold), top_k)

\* search_memories: a cache entry is returned as it is; otherwise the
\* result is computed, cached and returned.
MrSearchMemories ==
    /\ variant = "retrieve"
    /\ IF mrCache # <<>>
       THEN /\ mrOut' = <<"cached", mrCache[1]>>
            /\ UNCHANGED mrCache
       ELSE LET results == ComputeSearch(mrVector, mrMeta, mrTopK,
                                         mrThreshold, mrContext)
            IN /\ mrOut' = <<"search", results>>
               /\ mrCache' = IF \E i \in DOMAIN mrVector :
                                   ~mrMap[mrVector[i][1]].present
                             THEN mrCache ELSE <<results>>
    /\ UNCHANGED <<mrMap, mrVector, mrMeta, mrTopK, mrThreshold, mrContext>>
    /\ UNCHANGED <<baseVars, pureVars, cacheVars, genCallVars, epVars, fsVars>>

\* _merge_search_results on the two lists as they are.
MrMerge ==
    /\ variant = "retrieve"
    /\ mrOut' = <<"merge", MergeSearchResults(mrVector, mrMeta, mrTopK)>>
    /\ UNCHANGED <<mrMap, mrVector, mrMeta, mrTopK, mrThreshold, mrContext, mrCache>>
    /\ UNCHANGED <<baseVars, pureVars, cacheVars, genCallVars, epVars, fsVars>>

\* _rerank_with_context on a list of memories and a context.
MrRerank ==
    /\ variant = "retrieve"
    /\ mrContext # "none"
    /\ \A i \in DOMAIN mrVector : mrMap[mrVector[i][1]].present
    /\ mrOut' = <<"rerank", RerankWithContext(mrVector, mrContext)>>
    /\ UNCHANGED <<mrMap, mrVector, mrMeta, mrTopK, mrThreshold, mrContext, mrCache>>
    /\ UNCHANGED <<baseVars, pureVars, cacheVars, genCallVars, epVars, fsVars>>

(***************************************************************************)
(* core/memory/episodic.py: EpisodicMemoryStore                            *)
(* Importance is in tenths, a timestamp is the number of days before now.  *)
(***************************************************************************)
EpMaxMem == 2        \* memory ids
NumTags  == 2        \* tags

\* The defaults of EpisodicMemoryStore.max_size and importance_threshold
\* (0.7), and EpisodicMemory.decay_rate (0.1 a day).
MaxSize   == 1000
ImportanceThreshold == 7
DecayRate == 1
\* The smallest max_size a store is made with.
EpSmallSize == 1
\* The floor of _update_importance, max(0.1, ...).
MinImportance == 1

EpIds  == 1..EpMaxMem
EpTags == 1..NumTags
EpAges == {0, 5}
EpImportances == {3, 8}

\* The filters of list: a key that is absent has its use field FALSE.
EpFilters ==
    [useTags : BOOLEAN, tags : SUBSET EpTags,
     useStart : BOOLEAN, start : {2},
     useEnd : BOOLEAN, end : {1},
     useMin : BOOLEAN, min : {4}]

EpNoCall == [op |-> "none", raised |-> FALSE, result |-> <<>>]

\* MemoryStore has no __init__ and EpisodicMemoryStore.__init__ sets no
\* `memories`: the attribute exists only when a subclass provides it.
EpIdle ==
    /\ epReady = FALSE
    /\ epMaxSize = MaxSize
    /\ epMemories = <<>>
    /\ epTagIndex = [t \in EpTags |-> {}]
    /\ epOut = EpNoCall

InitEp ==
    /\ epReady \in BOOLEAN
    /\ epMaxSize \in {EpSmallSize, MaxSize}
    /\ epMemories = <<>>
    /\ epTagIndex = [t \in EpTags |-> {}]
    /\ epOut = EpNoCall

\* memories[memory.memory_id] = memory on a dict kept in insertion order.
EpPut(memories, memory) ==
    IF \E i \in DOMAIN memories : memories[i].id = memory.id
    THEN [i \in DOMAIN memories |->
             IF memories[i].id = memory.id THEN memory ELSE memories[i]]
    ELSE Append(memories, memory)

\* _update_indices: the memory's id joins the set of each of its tags.
UpdateIndices(index, memory) ==
    [t \in EpTags |-> IF t \in memory.tags THEN index[t] \cup {memory.id}
                      ELSE index[t]]

\* sorted(self.memories.items(), key=lambda x: x[1].importance_score)
RECURSIVE InsertAscending(_, _)
InsertAscending(x, sorted) ==
    IF sorted = <<>> THEN <<x>>
    ELSE IF x.imp <= Head(sorted).imp THEN <<x>> \o sorted
    ELSE <<Head(sorted)>> \o InsertAscending(x, Tail(sorted))

RECURSIVE SortAscending(_)
SortAscending(list) ==
    IF list = <<>> THEN <<>>
    ELSE InsertAscending(Head(list), SortAscending(Tail(list)))

\* delete on a store <<memories, tag_index>>: the memory leaves the
\* sets of its tags and the dict.
EpDelete(store, memory) ==
    <<SelectSeq(store[1], LAMBDA m : m.id # memory.id),
      [t \in EpTags |-> IF t \in memory.tags THEN store[2][t] \ {memory.id}
                        ELSE store[2][t]]>>

\* The loop of _cleanup_unimportant over the memories by rising importance:
\* while the store is at max_size the least important memory is deleted,
\* and the loop ends at the first one that reaches importance_threshold.
RECURSIVE CleanupLoop(_, _, _)
CleanupLoop(store, by_importance, max_size) ==
    IF Len(store[1]) < max_size \/ by_importance = <<>> THEN store
    ELSE IF Head(by_importance).imp < ImportanceThreshold
         THEN CleanupLoop(EpDelete(store, Head(by_importance)),
                          Tail(by_importance), max_size)
         ELSE store

\* `if len(self.memories) >= self.max_size`
Full(memories, max_size) == Len(memories) >= max_size

\* add: at max_size the store is cleaned up first; the memory is stored
\* under its id and the indices are updated.
EpAdd(memory) ==
    /\ variant = "episodic"
    /\ IF ~epReady
       THEN /\ epOut' = [EpNoCall EXCEPT !.op = "add", !.raised = TRUE]
            /\ UNCHANGED <<epMemories, epTagIndex>>
       ELSE LET store == IF Full(epMemories, epMaxSize)
                         THEN CleanupLoop(<<epMemories, epTagIndex>>,
                                          SortAscending(epMemories), epMaxSize)
                         ELSE <<epMemories, epTagIndex>>
            IN /\ epMemories' = EpPut(store[1], memory)
               /\ epTagIndex' = UpdateIndices(store[2], memory)
               /\ epOut' = [EpNoCall EXCEPT !.op = "add"]
    /\ UNCHANGED <<epReady, epMaxSize>>
    /\ UNCHANGED <<baseVars, pureVars, cacheVars, genCallVars, mrVars, fsVars>>

\* set.intersection(*[tag_index[tag] for tag in filters["tags"]])
TagMemories(index, tags) == { i \in EpIds : \A t \in tags : i \in index[t] }

\* The four filters of list, each applied when its key is in filters.
EpFiltered(memories, index, filters) ==
    LET byTags  == IF filters.useTags
                   THEN SelectSeq(memories,
                            LAMBDA m : m.id \in TagMemories(index, filters.tags))
                   ELSE memories
        byStart == IF filters.useStart
                   THEN SelectSeq(byTags, LAMBDA m : m.age <= filters.start)
                   ELSE byTags
        byEnd   == IF filters.useEnd
                   THEN SelectSeq(byStart, LAMBDA m : m.age >= filters.end)
                   ELSE byStart
    IN IF filters.useMin
       THEN SelectSeq(byEnd, LAMBDA m : m.imp >= filters.min)
       ELSE byEnd

\* _update_importance: importance_score = max(0.1, importance - decay_rate * days)
UpdateImportance(memory) ==
    [memory EXCEPT !.imp = Max(MinImportance, memory.imp - DecayRate * memory.age)]

\* memories.sort(key=lambda x: x.importance_score, reverse=True)
RECURSIVE InsertByImportance(_, _)
InsertByImportance(x, sorted) ==
    IF sorted = <<>> THEN <<x>>
    ELSE IF Head(sorted).imp >= x.imp
         THEN <<Head(sorted)>> \o InsertByImportance(x, Tail(sorted))
         ELSE <<x>> \o sorted

RECURSIVE SortByImportance(_)
SortByImportance(list) ==
    IF list = <<>> THEN <<>>
    ELSE InsertByImportance(list[Len(list)],
                            SortByImportance(SubSeq(list, 1, Len(list) - 1)))

\* list(filters): an empty list of tags makes set.intersection raise; the
\* memories that pass the filters have their importance updated, in the
\* store too (they are the stored objects), and are returned sorted.
EpList(filters) ==
    /\ variant = "episodic"
    /\ IF ~epReady \/ (filters.useTags /\ filters.tags = {})
       THEN /\ epOut' = [op |-> "list", raised |-> TRUE, result |-> <<>>]
            /\ UNCHANGED epMemories
       ELSE LET chosen  == EpFiltered(epMemories, epTagIndex, filters)
                ids     == { chosen[i].id : i \in DOMAIN chosen }
                updated == [i \in DOMAIN epMemories |->
                              IF epMemories[i].id \in ids
                              THEN UpdateImportance(epMemories[i])
                              ELSE epMemories[i]]
            IN /\ epMemories' = updated
               /\ epOut' = [op |-> "list", raised |-> FALSE,
                            result |-> SortByImportance(
                                SelectSeq(updated, LAMBDA m : m.id \in ids))]
    /\ UNCHANGED <<epReady, epMaxSize, epTagIndex>>
    /\ UNCHANGED <<baseVars, pureVars, cacheVars, genCallVars, mrVars, fsVars>>

\* get(memory_id): a stored memory has its importance updated in place and
\* is returned; an unknown id gives None.
EpGet(memory_id) ==
    /\ variant = "episodic"
    /\ IF ~epReady
       THEN /\ epOut' = [op |-> "get", raised |-> TRUE, result |-> <<>>]
            /\ UNCHANGED epMemories
       ELSE LET updated == [i \in DOMAIN epMemories |->
                              IF epMemories[i].id = memory_id
                              THEN UpdateImportance(epMemories[i])
                              ELSE epMemories[i]]
            IN /\ epMemories' = updated
               /\ epOut' = [op |-> "get", raised |-> FALSE,
                            result |-> SelectSeq(updated,
                                         LAMBDA m : m.id = memory_id)]
    /\ UNCHANGED <<epReady, epMaxSize, epTagIndex>>
    /\ UNCHANGED <<baseVars, pureVars, cacheVars, genCallVars, mrVars, fsVars>>

(***************************************************************************)
(* core/memory/file_store.py: FileMemoryStore's memories, detail snapshots *)
(* and the two association tables with their index files.  A dict is the   *)
(* function from its keys to their values.                                 *)
(***************************************************************************)
NumFsMems == 2

FsMemIds == 1..NumFsMems
\* A detail snapshot is named after the second it is made in.
FsSnapIds == Clock

EmptyDict == [k \in {} |-> {}]

\* d[key] = value
FsPut(d, key, value) ==
    [k \in DOMAIN d \cup {key} |-> IF k = key THEN value ELSE d[k]]

\* del d[key], and the unlink of a file that exists
FsDel(d, key) == [k \in DOMAIN d \ {key} |-> d[k]]

\* d.get(key, set())
FsGet(d, key) == IF key \in DOMAIN d THEN d[key] ELSE {}

\* _save_memory_snapshot_index and _save_snapshot_memory_index for a set of
\* keys: each file takes what the table holds for its key.
SaveIndexFiles(files, table, keys) ==
    [k \in DOMAIN files \cup keys |->
        IF k \in keys THEN FsGet(table, k) ELSE files[k]]

InitFs ==
    /\ fsMemoryFiles = {}
    /\ fsDetailFiles = EmptyDict
    /\ memory_snapshot_index = EmptyDict
    /\ snapshot_memory_index = EmptyDict
    /\ fsMsiFiles = EmptyDict
    /\ fsSmiFiles = EmptyDict
    /\ fsResult = <<"none", "none">>

\* add: the memory file is written and a memory without an entry in
\* memory_snapshot_index gets the empty set; when the write raises, add
\* returns False.
FsAdd(memory_id, fails) ==
    /\ variant = "filestore"
    /\ IF fails
       THEN /\ fsResult' = <<"add", "false">>
            /\ UNCHANGED <<fsMemoryFiles, memory_snapshot_index, fsMsiFiles>>
       ELSE /\ fsResult' = <<"add", "true">>
            /\ fsMemoryFiles' = fsMemoryFiles \cup {memory_id}
            /\ IF memory_id \notin DOMAIN memory_snapshot_index
               THEN /\ memory_snapshot_index' =
                          FsPut(memory_snapshot_index, memory_id, {})
                    /\ fsMsiFiles' = SaveIndexFiles(fsMsiFiles, memory_snapshot_index',
                                               {memory_id})
               ELSE UNCHANGED <<memory_snapshot_index, fsMsiFiles>>
    /\ UNCHANGED <<fsDetailFiles, snapshot_memory_index, fsSmiFiles>>
    /\ UNCHANGED <<baseVars, pureVars, cacheVars, genCallVars, mrVars, epVars>>

\* A faulty variant of the loop of delete: the snapshots keep the memory.
KeepInSnapshots(table, snapshot_ids, memory_id) == table

\* `for snapshot_id in snapshot_ids: if snapshot_id in
\* self.snapshot_memory_index: ...discard(memory_id)`
DiscardFromSnapshots(table, snapshot_ids, memory_id) ==
    [s \in DOMAIN table |->
        IF s \in snapshot_ids THEN table[s] \ {memory_id} ELSE table[s]]

\* delete: the memory file is unlinked; a memory with an entry in
\* memory_snapshot_index is discarded from the sets of its snapshots, whose
\* index files are saved, and its entry and index file are removed; when
\* the unlink raises, delete returns False.
FsDelete(memory_id, fails) ==
    /\ variant = "filestore"
    /\ IF fails
       THEN /\ fsResult' = <<"delete", "false">>
            /\ UNCHANGED <<fsMemoryFiles, memory_snapshot_index,
                           snapshot_memory_index, fsMsiFiles, fsSmiFiles>>
       ELSE /\ fsResult' = <<"delete", "true">>
            /\ fsMemoryFiles' = fsMemoryFiles \ {memory_id}
            /\ IF memory_id \in DOMAIN memory_snapshot_index
               THEN LET snapshot_ids == memory_snapshot_index[memory_id] IN
                    /\ snapshot_memory_index' =
                          DiscardFromSnapshots(snapshot_memory_index,
                                               snapshot_ids, memory_id)
                    /\ fsSmiFiles' =
                          SaveIndexFiles(fsSmiFiles, snapshot_memory_index',
                                    snapshot_ids \cap DOMAIN snapshot_memory_index)
                    /\ memory_snapshot_index' =
                          FsDel(memory_snapshot_index, memory_id)
                    /\ fsMsiFiles' = FsDel(fsMsiFiles, memory_id)
               ELSE UNCHANGED <<memory_snapshot_index, snapshot_memory_index,
                                fsMsiFiles, fsSmiFiles>>
    /\ UNCHANGED fsDetailFiles
    /\ UNCHANGED <<baseVars, pureVars, cacheVars, genCallVars, mrVars, epVars>>

\* The loop of create_detail_snapshot over memory_ids: the snapshot joins
\* the set of each memory, a memory without an entry getting one.
AddToMemories(table, memory_ids, snapshot_id) ==
    [m \in DOMAIN table \cup memory_ids |->
        IF m \in memory_ids THEN FsGet(table, m) \cup {snapshot_id}
        ELSE table[m]]

\* create_detail_snapshot(memories): the snapshot, named after the current
\* second, is written to its file and the two tables and their index files
\* take the association; when the write of the snapshot raises, the method
\* raises MemoryStorageException.
FsCreateDetailSnapshot(memory_ids, fails) ==
    /\ variant = "filestore"
    /\ IF fails
       THEN /\ fsResult' = <<"create_detail_snapshot", "raised">>
            /\ UNCHANGED <<fsDetailFiles, memory_snapshot_index,
                           snapshot_memory_index, fsMsiFiles, fsSmiFiles>>
       ELSE LET snapshot_id == clock IN
            /\ fsResult' = <<"create_detail_snapshot", "snapshot">>
            /\ fsDetailFiles' = FsPut(fsDetailFiles, snapshot_id, memory_ids)
            /\ memory_snapshot_index' =
                  AddToMemories(memory_snapshot_index, memory_ids, snapshot_id)
            /\ fsMsiFiles' = SaveIndexFiles(fsMsiFiles, memory_snapshot_index',
                                       memory_ids)
            /\ snapshot_memory_index' =
                  FsPut(snapshot_memory_index, snapshot_id,
                        FsGet(snapshot_memory_index, snapshot_id) \cup memory_ids)
            /\ fsSmiFiles' = SaveIndexFiles(fsSmiFiles, snapshot_memory_index',
                                       {snapshot_id})
    /\ UNCHANGED fsMemoryFiles
    /\ UNCHANGED <<baseVars, pureVars, cacheVars, genCallVars, mrVars, epVars>>

\* clear_all_memories: the memory files, the tables, the index files and
\* the snapshot files are removed; when the first unlink raises, the method
\* returns False.
FsClearAllMemories(fails) ==
    /\ variant = "filestore"
    /\ IF fails
       THEN /\ fsResult' = <<"clear_all_memories", "false">>
            /\ UNCHANGED <<fsMemoryFiles, fsDetailFiles, memory_snapshot_index,
                           snapshot_memory_index, fsMsiFiles, fsSmiFiles>>
       ELSE /\ fsResult' = <<"clear_all_memories", "true">>
            /\ fsMemoryFiles' = {}
            /\ fsDetailFiles' = EmptyDict
            /\ memory_snapshot_index' = EmptyDict
            /\ snapshot_memory_index' = EmptyDict
            /\ fsMsiFiles' = EmptyDict
            /\ fsSmiFiles' = EmptyDict
    /\ UNCHANGED <<baseVars, pureVars, cacheVars, genCallVars, mrVars, epVars>>

\* The groups of variables a specification does not use keep these values.
FnIdle ==
    /\ MrIdle
    /\ EpIdle
    /\ InitFs

InitExt ==
    /\ JudgeIdle
    /\ SearchIdle
    /\ GenIdle
    /\ InitSave
    /\ InitChat
    /\ InitCache
    /\ InitGenCall
    /\ FnIdle

InitBase ==
    /\ clock = 0
    /\ InitUpd /\ InitPm /\ InitSm /\ InitRet

InitJudgeSpec ==
    /\ variant = "judge"
    /\ InitBase
    /\ InitJudge
    /\ SearchIdle
    /\ GenIdle
    /\ InitSave
    /\ InitChat
    /\ InitCache
    /\ InitGenCall
    /\ FnIdle

NextJudge ==
    \/ ProcGetRelevant
    \/ \E r \in {jResponse, [shape |-> "coroutine", entries |-> <<>>]} :
          SearcherEvaluate(r)

SpecJudge == InitJudgeSpec /\ [][NextJudge]_vars

InitSearchSpec ==
    /\ variant = "search"
    /\ InitBase
    /\ JudgeIdle
    /\ InitSearch
    /\ GenIdle
    /\ InitSave
    /\ InitChat
    /\ InitCache
    /\ InitGenCall
    /\ FnIdle

NextSearch == \E raises \in BOOLEAN : VsSearch(raises)

SpecSearch == InitSearchSpec /\ [][NextSearch]_vars

InitGenSpec ==
    /\ variant = "gen"
    /\ InitBase
    /\ JudgeIdle
    /\ SearchIdle
    /\ InitGen
    /\ InitSave
    /\ InitChat
    /\ InitCache
    /\ InitGenCall
    /\ FnIdle

NextGen == GenGenerate

SpecGen == InitGenSpec /\ [][NextGen]_vars

InitSaveSpec ==
    /\ variant = "save"
    /\ InitBase
    /\ InitExt

NextSave ==
    \/ \E id \in SaveIds, fault \in SaveFaults : MsSaveMemory(id, fault)
    \/ \E id \in SaveIds, fault \in SaveFaults : FaAdd(id, fault)

SpecSave == InitSaveSpec /\ [][NextSave]_vars

InitChatSpec ==
    /\ variant = "chat"
    /\ InitBase
    /\ InitExt

NextChat ==
    \/ \E q \in ChatQueries, before \in {"none", "lookup", "api"},
          raises \in BOOLEAN : Chat(q, before, raises)
    \/ \E fault \in {"none", "query", "response", "snapshot"} : ProcessStorage(fault)

SpecChat == InitChatSpec /\ [][NextChat]_vars

\* Chat turns, their storage tasks, and clear_all.
InitClearSpec ==
    /\ variant = "clear"
    /\ InitBase
    /\ InitExt

NextClear ==
    \/ \E q \in ChatQueries, before \in {"none", "lookup", "api"},
          raises \in BOOLEAN : Chat(q, before, raises)
    \/ \E fault \in {"none", "query", "response", "snapshot"} : ProcessStorage(fault)
    \/ \E fails \in BOOLEAN : ClearAll(fails)

SpecClear == InitClearSpec /\ [][NextClear]_vars

\* Chat turns alone, enough of them to fill the history.
InitHistorySpec ==
    /\ variant = "history"
    /\ InitBase
    /\ InitExt

NextHistory ==
    \E before \in {"none", "lookup"}, raises \in BOOLEAN : Chat(1, before, raises)

SpecHistory == InitHistorySpec /\ [][NextHistory]_vars


InitRetrieval ==
    /\ variant = "ret"
    /\ clock = 0
    /\ InitUpd /\ InitPm /\ InitSm /\ InitRet /\ InitExt

NextRet ==
    \/ \E c \in Topics : MmAddMemory(c)
    \/ \E cs \in Batches : MmBatchStart(cs)
    \/ MmBatchRun
    \/ VsClear
    \/ MmClearAll
    \/ \E q \in Queries : SearchStart(q)
    \/ \E raises \in BOOLEAN : SearchVector(raises)
    \/ SearchMerge
    \/ Tick

SpecRet == InitRetrieval /\ [][NextRet]_vars

\* The vector store on its own: add_memory and clear.
InitVectorSpec ==
    /\ variant = "vector"
    /\ clock = 0
    /\ InitUpd /\ InitPm /\ InitSm /\ InitRet /\ InitExt

NextVector ==
    \/ \E memory_id \in VsIds, content \in Topics : VsAddMemory(memory_id, content)
    \/ VsClear

SpecVector == InitVectorSpec /\ [][NextVector]_vars

(***************************************************************************)
(* The specifications: one per group of objects that share state.          *)
(***************************************************************************)
InitSnap ==
    /\ variant = "snap"
    /\ clock = 0
    /\ InitUpd /\ InitPm /\ InitSm /\ InitRet /\ InitExt

NextSnap ==
    \/ SmAddMemory
    \/ \E ids \in SUBSET SmMemIds : SmCreateSnapshot(ids)
    \/ \E ids \in SUBSET SmSnapIds : SmCreateMetaSnapshot(ids)
    \/ SmCleanup
    \/ \E generated \in BOOLEAN : ProcUpdateSnapshots(generated)
    \/ Tick

SpecSnap == InitSnap /\ [][NextSnap]_vars

(***************************************************************************)
(* Consolidation: either manager, as the deployment wires it.              *)
(***************************************************************************)
InitConsol ==
    /\ variant \in {"cycle", "permem"}
    /\ clock = 0
    /\ InitUpd /\ InitPm /\ InitSm /\ InitRet /\ InitExt

NextConsol ==
    \/ \E m \in MemIds, d \in Days : AddMemory(m, d)
    \/ \E c \in Callers : UpdStart(c)
    \/ \E c \in Callers : UpdAcquire(c)
    \/ \E g \in DOMAIN tasks, ok \in BOOLEAN : DetailFinish(g, ok)
    \/ \E c \in Callers : UpdBase(c)
    \/ \E c \in Callers, ok \in BOOLEAN : UpdBaseStep(c, ok)
    \/ Tick
    \/ PmSaveMemory
    \/ \E m \in 0..PmMaxMem, st \in {"none", "llm", "save", "link"} :
          PmUpdateSnapshots(<<m, st>>)

SpecConsol == InitConsol /\ [][NextConsol]_vars

\* One caller of update_snapshots and the readers of the two cached methods.
InitCacheSpec ==
    /\ variant = "cache"
    /\ InitBase
    /\ InitExt

NextCache ==
    \/ \E m \in MemIds, d \in Days : AddMemory(m, d)
    \/ UpdStart(1)
    \/ \E g \in DOMAIN tasks, ok \in BOOLEAN : DetailFinish(g, ok)
    \/ UpdBase(1)
    \/ \E ok \in BOOLEAN : UpdBaseStep(1, ok)
    \/ Tick
    \/ MgrGetBaseSnapshots
    \/ \E key \in CacheKeys : MgrGetDetailSnapshots(key)

SpecCache == InitCacheSpec /\ [][NextCache]_vars

\* The two consolidations that read the store before they do anything:
\* SnapshotManager.update_snapshots and SnapshotProcessor.update_snapshots.
InitNoop ==
    /\ variant \in {"cycle", "snap"}
    /\ InitBase
    /\ InitExt

NextNoop ==
    \/ \E m \in MemIds, d \in Days : AddMemory(m, d)
    \/ \E c \in Callers : UpdStart(c)
    \/ \E c \in Callers : UpdAcquire(c)
    \/ \E g \in DOMAIN tasks, ok \in BOOLEAN : DetailFinish(g, ok)
    \/ \E c \in Callers : UpdBase(c)
    \/ \E c \in Callers, ok \in BOOLEAN : UpdBaseStep(c, ok)
    \/ NextSnap

SpecNoop == InitNoop /\ [][NextNoop]_vars

InitRetrieveSpec ==
    /\ variant = "retrieve"
    /\ InitBase
    /\ JudgeIdle /\ SearchIdle /\ GenIdle /\ InitSave /\ InitChat
    /\ InitCache /\ InitGenCall
    /\ InitMr
    /\ EpIdle
    /\ InitFs

NextRetrieve ==
    \/ MrSearchMemories
    \/ MrMerge
    \/ MrRerank

SpecRetrieve == InitRetrieveSpec /\ [][NextRetrieve]_vars

InitEpisodicSpec ==
    /\ variant = "episodic"
    /\ InitBase
    /\ JudgeIdle /\ SearchIdle /\ GenIdle /\ InitSave /\ InitChat
    /\ InitCache /\ InitGenCall
    /\ MrIdle
    /\ InitEp
    /\ InitFs

NextEpisodic ==
    \/ \E i \in EpIds, a \in EpAges, imp \in EpImportances, tags \in SUBSET EpTags :
          EpAdd([id |-> i, age |-> a, imp |-> imp, tags |-> tags])
    \/ \E filters \in EpFilters : EpList(filters)
    \/ \E memory_id \in EpIds : EpGet(memory_id)

SpecEpisodic == InitEpisodicSpec /\ [][NextEpisodic]_vars

\* FileMemoryStore: add, delete, create_detail_snapshot and
\* clear_all_memories, in any order, while time passes.
InitFileStoreSpec ==
    /\ variant = "filestore"
    /\ InitBase
    /\ InitExt

NextFileStore ==
    \/ \E memory_id \in FsMemIds, fails \in BOOLEAN :
          FsAdd(memory_id, fails)
    \/ \E memory_id \in FsMemIds, fails \in BOOLEAN :
          FsDelete(memory_id, fails)
    \/ \E memory_ids \in SUBSET FsMemIds, fails \in BOOLEAN :
          FsCreateDetailSnapshot(memory_ids, fails)
    \/ \E fails \in BOOLEAN : FsClearAllMemories(fails)
    \/ Tick

SpecFileStore == InitFileStoreSpec /\ [][NextFileStore]_vars

\* C1: at any time at most one update_snapshots call is inside the update
\* cycle (between taking and releasing _update_lock), and it is the holder
\* of the lock.
MutualExclusionC1 ==
    /\ Cardinality({ c \in Callers : InCycle(c) }) <= 1
    /\ \A c \in Callers : InCycle(c) => lockHolder = c

\* A second call is waiting for the lock while a first one runs its cycle.
WitnessC1 == \E c, o \in Callers : InCycle(c) /\ upc[o] = "waiting"

\* C2: a call that arrives while another call's cycle is in progress is
\* coalesced: it never gets into a cycle of its own (listing the memories,
\* generating, writing to the store).
CoalescedC2 == \A c \in Callers : hArrivedDuring[c] => ~InCycle(c)

IdempotentC4 ==
    [][ \A generated \in BOOLEAN :
          (ProcUpdateSnapshots(generated) /\ smResult = <<"update_snapshots", "ok">>)
             => /\ Cardinality(smSnapshots') = Cardinality(smSnapshots)
                /\ Cardinality(stSnapshots') = Cardinality(stSnapshots)
      ]_vars

\* C5: create_snapshot called with an id that is not a memory of the manager
\* ends in an error and leaves the snapshots map and the storage as they
\* are; and a snapshot that enters the map references only memories that
\* exist at that moment.
RejectsUnknownC5 ==
    [][ /\ \A ids \in SUBSET SmMemIds :
             (SmCreateSnapshot(ids) /\ ~(ids \subseteq smMemories))
                => /\ smResult' = <<"create_snapshot", "ValueError">>
                   /\ smSnapshots' = smSnapshots
                   /\ stSnapshots' = stSnapshots
        /\ \A s \in smSnapshots' \ smSnapshots : s.refs \subseteq smMemories'
      ]_vars

\* A call with an unknown id has just been rejected while the map holds a
\* snapshot of an accepted call.
WitnessC5 ==
    /\ smResult = <<"create_snapshot", "ValueError">>
    /\ \E s \in smSnapshots : s.refs # {}

\* C6: create_meta_snapshot called with an id that is not a snapshot of the
\* manager ends in an error and stores nothing; and a meta snapshot that
\* enters the map references only snapshots that exist at that moment.
RejectsUnknownC6 ==
    [][ /\ \A ids \in SUBSET SmSnapIds :
             (SmCreateMetaSnapshot(ids) /\ ~(ids \subseteq Ids(smSnapshots)))
                => /\ smResult' = <<"create_meta_snapshot", "ValueError">>
                   /\ smMeta' = smMeta
                   /\ stMeta' = stMeta
        /\ \A m \in smMeta' \ smMeta : m.refs \subseteq Ids(smSnapshots')
      ]_vars

\* A meta snapshot over an existing snapshot is in the map, and a later call
\* with an unknown snapshot id has just been rejected.
WitnessC6 ==
    /\ smResult = <<"create_meta_snapshot", "ValueError">>
    /\ \E m \in smMeta : m.refs # {}

\* C7: when cleanup_old_memories has run, every snapshot that is left
\* references only memories that are left, and every meta snapshot that is
\* left references only snapshots that are left (the code has no flag that
\* would mark a snapshot as orphaned).
NoDanglingC7 ==
    smResult = <<"cleanup_old_memories", "ok">>
        => /\ \A s \in smSnapshots : s.refs \subseteq smMemories
           /\ \A m \in smMeta : m.refs \subseteq Ids(smSnapshots)

\* C8: once MemoryRetriever.add_memory has completed, the cache holds no
\* entry that was written before the add, so no search after the add is
\* served a result cached before it.
InvalidatedC8 == \A e \in rcCache : ~e.preAdd

\* add_memory has met a cache with an entry in it, and a search made later
\* has computed a result that holds a memory and cached it.
WitnessC8 ==
    /\ hInvalidated
    /\ spc = "idle"
    /\ \E e \in rcCache : e.results # {}

\* C9: after add_memories_batch, a search is never served an entry that was
\* cached before the batch was added.
BatchInvalidatesC9 ==
    [][ \A q \in Queries :
          (SearchStart(q) /\ sResult'[1] = "cache") => \A e \in Hit(q) : ~e.preBatch
      ]_vars

\* C10: after VectorStore.clear, as long as nothing is added, every search
\* returns the empty result, be it served from the cache or computed.
EmptyAfterClearC10 ==
    [][ ( /\ hCleared
          /\ \/ \E q \in Queries : SearchStart(q) /\ spc' = "idle"
             \/ \E raises \in BOOLEAN : SearchVector(raises) /\ spc' = "idle"
             \/ SearchMerge )
        => sResult'[2] = {}
      ]_vars

\* C11: when the answer of the language model is malformed (no JSON object,
\* the error object, no relevant_memories key, or a value under it that is
\* no list), get_relevant_memories and _evaluate_memories return the empty
\* list; a returned value is the absence of an exception.
Malformed(result) == result.shape \in {"error", "barelist", "nokey", "nonlist"}

EmptyOnMalformedC11 ==
    Malformed(jResponse) =>
        /\ jOut.done => jOut.list = <<>>
        /\ jsOut.done => jsOut.list = <<>>

WitnessC11 ==
    /\ jOut.done /\ jsOut.done
    /\ jQuery /\ jMemories = JIds
    /\ jResponse.shape = "barelist"
    /\ \E i \in DOMAIN jResponse.entries :
          LET e == jResponse.entries[i] IN
          e.dict /\ e.id = 1 /\ e.reason /\ e.score = [kind |-> "number", v |-> 10]

\* C12: an entry whose relevance_score lies outside [0, 1] or cannot be read
\* as a float is dropped by get_relevant_memories: every returned pair
\* carries the unmodified score of an entry for that memory, and that score
\* is a float within [0, 1].
Coercible(score) == FloatOf(score).exc = "none"

DroppedNotClampedC12 ==
    jOut.done =>
        \A k \in DOMAIN jOut.list :
            \E i \in DOMAIN jResponse.entries :
                LET e == jResponse.entries[i] IN
                /\ e.dict /\ e.id = jOut.list[k][1]
                /\ Coercible(e.score)
                /\ FloatOf(e.score).v = jOut.list[k][2]
                /\ 0 <= FloatOf(e.score).v /\ FloatOf(e.score).v <= ScoreMax

WitnessC12 ==
    /\ jOut.done /\ jQuery /\ jResponse.shape = "ok"
    /\ Len(jResponse.entries) = 2
    /\ jResponse.entries[1] =
           [dict |-> TRUE, id |-> 1, score |-> [kind |-> "number", v |-> 17],
            reason |-> TRUE]
    /\ jResponse.entries[2] =
           [dict |-> TRUE, id |-> 2, score |-> [kind |-> "string", v |-> 8],
            reason |-> TRUE]
    /\ jMemories = JIds
    /\ jOut.list = <<<<2, 8>>>>

\* C13: every pair get_relevant_memories returns has a score between 0.5
\* and 1, and the pairs are in order of non-increasing score.
ThresholdAndOrderC13 ==
    jOut.done =>
        /\ \A k \in DOMAIN jOut.list :
               Threshold <= jOut.list[k][2] /\ jOut.list[k][2] <= ScoreMax
        /\ \A k \in 1..(Len(jOut.list) - 1) :
               jOut.list[k][2] >= jOut.list[k + 1][2]

WitnessC13 ==
    /\ jOut.done /\ jResponse.shape = "ok"
    /\ Len(jResponse.entries) = 2
    /\ jResponse.entries[1].score = [kind |-> "number", v |-> 5]
    /\ jResponse.entries[2].score = [kind |-> "number", v |-> 10]
    /\ jOut.list = <<<<jResponse.entries[2].id, 10>>, <<jResponse.entries[1].id, 5>>>>

\* C14: malformed entries are dropped one by one, never the whole answer:
\* an entry with the three keys, a known memory and a score within
\* [0.5, 1] is returned whatever the other entries of the list are.
Qualifies(e) ==
    /\ e.dict /\ e.id \in jMemories /\ e.reason
    /\ e.score.kind \in {"number", "string"}
    /\ Threshold <= e.score.v /\ e.score.v <= ScoreMax

PerEntryC14 ==
    (jOut.done /\ jQuery /\ jResponse.shape = "ok") =>
        \A i \in DOMAIN jResponse.entries :
            Qualifies(jResponse.entries[i]) =>
                \E k \in DOMAIN jOut.list :
                    jOut.list[k] = <<jResponse.entries[i].id,
                                     jResponse.entries[i].score.v>>

\* C15: VectorStore.search returns at most top_k results, in order of
\* non-increasing score, none of them with a score below threshold.
TopKThresholdC15 ==
    svOut.how = "returned" =>
        /\ Len(svOut.list) <= svTopK
        /\ \A k \in 1..(Len(svOut.list) - 1) :
               svOut.list[k][2] >= svOut.list[k + 1][2]
        /\ \A k \in DOMAIN svOut.list : svOut.list[k][2] >= svThreshold

\* C16: generate_detail_snapshot and generate_meta_snapshot raise when the
\* call to the language model fails or its answer lacks a required field;
\* they return no snapshot that holds a default value.
OracleFailed(reply) == reply.call = "raises" \/ reply.doc.shape # "object"

RaisesOnFailureC16 ==
    gOut.how # "none" =>
        /\ (OracleFailed(gReply) \/ ~(Required(gKind) \subseteq gReply.doc.keys))
               => gOut.how = "raised"
        /\ gOut.how = "returned" => gOut.defaults = {}

\* C17: in one update_snapshots cycle the failure of the detail snapshot of
\* one group ends that group's task only: the other tasks and the cycle go
\* on, and when the cycle ends every task has run, every group whose task
\* did not fail has its snapshot among the cycle's detail snapshots, the
\* base step was reached when there was any, and last_update is set.
GroupFails(g) ==
    /\ g \in DOMAIN tasks /\ tasks[g] = "gen"
    /\ g \in DOMAIN tasks' /\ tasks'[g] = "failed"

CycleEnds(c) == InCycle(c) /\ upc'[c] = "idle"

FailureIsolatedC17 ==
    [][ /\ \A g \in DOMAIN tasks : GroupFails(g) =>
              /\ DOMAIN tasks' = DOMAIN tasks
              /\ \A h \in DOMAIN tasks \ {g} : tasks'[h] = tasks[h]
              /\ upc' = upc /\ lockHolder' = lockHolder
              /\ cycleDetails' = cycleDetails
        /\ \A c \in Callers : CycleEnds(c) =>
              /\ \A g \in DOMAIN tasks :
                    /\ tasks[g] \in {"done", "failed"}
                    /\ tasks[g] = "done" =>
                          \E i \in DOMAIN cycleDetails :
                              cycleDetails[i].mems = { m.id : m \in g }
              /\ (\E g \in DOMAIN tasks : tasks[g] = "done") => upc[c] = "base"
              /\ last_update' = unow[c]
      ]_vars

WitnessC17 ==
    \E c \in Callers :
        /\ upc[c] = "base"
        /\ \E g, h \in DOMAIN tasks :
              /\ tasks[g] = "failed" /\ tasks[h] = "done"
              /\ \E i \in DOMAIN cycleDetails :
                    cycleDetails[i].mems = { m.id : m \in h }

\* C18: in _create_or_update_base_snapshots a cluster whose base snapshot
\* cannot be generated is skipped and the loop goes on with the clusters
\* that remain.
ClusterFails(c) ==
    /\ upc[c] = "base" /\ clusters # <<>>
    /\ ~HasBase(Head(clusters))
    /\ fsBase' = fsBase

ClusterSkippedC18 ==
    [][ \A c \in Callers :
            (ClusterFails(c) /\ Len(clusters) > 1) =>
                (upc'[c] = "base" /\ clusters' = Tail(clusters)) ]_vars

\* C19: saving a memory is atomic with respect to its index: whenever
\* save_memory or add has returned or failed, a memory has its record file
\* if and only if it has its index entry, in memory and on disk.
SaveAtomicC19 ==
    \A id \in SaveIds :
        /\ (msFiles[id] # "none") <=> (id \in msIndex)
        /\ (id \in msIndex) <=> (msIndexFile.ok /\ id \in msIndexFile.ids)
        /\ (faFiles[id] # "none") <=> (id \in faIndex)
        /\ (id \in faIndex) <=> (faIndexFiles[id] = "whole")

\* C20: a chat turn whose completion call raises records nothing: neither
\* the history nor the memory store holds an entry of that turn.
FailedTurnUnrecordedC20 ==
    /\ \A i \in DOMAIN chHistory : chHistory[i].turn \notin hFailedTurns
    /\ \A i \in DOMAIN chStore : chStore[i].turn \notin hFailedTurns

\* C21: chat returns its reply without waiting for the storage task: the
\* chat step writes nothing to the store, and a step of the storage task,
\* whether it succeeds or fails, changes neither the reply that was returned
\* nor the history; a task that never runs leaves the reply as returned.
StorageStep ==
    chStore' # chStore \/ chSnaps' # chSnaps \/ Len(chPending') < Len(chPending)

ReplyBeforeStorageC21 ==
    [][ /\ chTurn' # chTurn => (chStore' = chStore /\ chSnaps' = chSnaps)
        /\ StorageStep => (chResult' = chResult /\ chHistory' = chHistory
                           /\ chTurn' = chTurn)
      ]_vars

WitnessC21 ==
    /\ chTurn = 2 /\ chResult = "reply"
    /\ Len(chPending) = 1 /\ chPending[1].turn = 2
    /\ Len(chStore) = 1 /\ chStore[1].turn = 1

\* C22: when get_relevant_snapshots raises during a chat turn, the turn
\* goes on without candidate memories and returns what LLMService.chat
\* answers, not the error message of the outer except.
LookupFailureToleratedC22 ==
    hLookupRaised => chResult \in {"reply", "apology"}

\* C23: callers never observe a stale cached snapshot list: whenever no
\* update cycle is writing, what get_base_snapshots() returns equals what
\* the store returns, and so does get_detail_snapshots(b) for every b.
NoStaleCacheC23 ==
    lockHolder = 0 =>
        /\ CachedValue(cacheBase, fsBase) = fsBase
        /\ \A key \in CacheKeys :
               CachedValue(cacheDetail[key], GetDetailSnapshots(key))
                   = GetDetailSnapshots(key)

\* C24: the history is a bounded FIFO: after every chat turn it holds at
\* most 20 entries, and these are the most recent entries ever added, in
\* the order they were added (the user entry of a turn before the
\* assistant entry, the oldest entries evicted first).
BoundedFifoC24 ==
    /\ Len(chHistory) <= HistoryLimit
    /\ Len(chHistory) = Min(Len(hLog), HistoryLimit)
    /\ chHistory = SubSeq(hLog, Len(hLog) - Len(chHistory) + 1, Len(hLog))
    /\ \A i \in 1..(Len(chHistory) - 1) :
           \/ /\ chHistory[i].turn = chHistory[i + 1].turn
              /\ chHistory[i].is_user /\ ~chHistory[i + 1].is_user
           \/ /\ chHistory[i].turn < chHistory[i + 1].turn
              /\ ~chHistory[i].is_user /\ chHistory[i + 1].is_user

WitnessC24 ==
    /\ Len(hLog) = HistoryLimit + 2
    /\ Len(chHistory) = HistoryLimit
    /\ chHistory[1] = hLog[3]
    /\ chHistory[HistoryLimit].turn = chTurn

\* C25: a consolidation run on a store that holds no memory is a no-op:
\* SnapshotManager.update_snapshots and SnapshotProcessor.update_snapshots
\* create no detail or base snapshot and do not call the generator.
NoopOnEmptyC25 ==
    [][ /\ (variant = "cycle" /\ fsMemories = {}) =>
              /\ fsDetail' = fsDetail /\ fsBase' = fsBase
              /\ tasks' = <<>> /\ clusters' = <<>>
              /\ hGenCalled' = hGenCalled
        /\ (variant = "snap" /\ smMemories = {}
                /\ smResult'[1] = "update_snapshots") =>
              /\ smSnapshots' = smSnapshots
              /\ smIds'.snap = smIds.snap
              /\ stSnapshots' \subseteq stSnapshots
              /\ hProcGenCalled' = hProcGenCalled
      ]_vars

WitnessC25 ==
    /\ variant = "snap"
    /\ smMemories = {} /\ smResult = <<"update_snapshots", "ok">>
    /\ smSnapshots = {} /\ ~hProcGenCalled

\* C26: _rerank_with_context with a non-empty context puts, of two
\* candidates with equal merged score and identical metadata, the one with
\* the later timestamp strictly before the one with the earlier timestamp.
Position(list, id) == CHOOSE i \in DOMAIN list : list[i][1] = id

FreshResultC27 ==
    mrOut[1] = "search" =>
        LET out == mrOut[2] IN
        /\ Len(out) <= mrTopK
        /\ \A i \in DOMAIN out : out[i][2] >= mrThreshold
        /\ \A i, j \in DOMAIN out : i < j => out[i][2] >= out[j][2]
        /\ \A i, j \in DOMAIN out : i # j => out[i][1] # out[j][1]

WitnessC27 ==
    /\ mrOut[1] = "search"
    /\ mrContext = "user"
    /\ mrTopK = 2
    /\ Len(mrOut[2]) = 2
    /\ mrOut[2][1][2] > mrOut[2][2][2]
    /\ mrMeta # <<>>
    /\ Len(mrVector) = 2

\* C28: _merge_search_results gives each memory id the largest score of its
\* entries in the vector results and the meta results, also when an id has
\* more than one entry in one of the two lists.
ScoresSeen(id) ==
    { (mrVector \o mrMeta)[i][2] :
        i \in { j \in DOMAIN (mrVector \o mrMeta) : (mrVector \o mrMeta)[j][1] = id } }

MaxScoreC28 ==
    mrOut[1] = "merge" =>
        \A i \in DOMAIN mrOut[2] :
            \A sc \in ScoresSeen(mrOut[2][i][1]) : mrOut[2][i][2] >= sc

\* C29: ids are unique: no create operation produces the id of an entry
\* that exists, so a create never overwrites a stored detail or base
\* snapshot.
UniqueIdsC29 ==
    [][ /\ \A d \in fsDetail : d \in fsDetail'
        /\ \A b \in fsBase : b \in fsBase' ]_vars

\* C30: EpisodicMemoryStore.list(filters) returns exactly the stored
\* memories that satisfy all the filters given, and every memory it returns
\* has an importance of at least min_importance when it is returned.
Satisfies(m, filters) ==
    /\ filters.useTags => filters.tags \subseteq m.tags
    /\ filters.useStart => m.age <= filters.start
    /\ filters.useEnd => m.age >= filters.end
    /\ filters.useMin => m.imp >= filters.min

ListExactC30 ==
    [][ \A filters \in EpFilters :
          (EpList(filters) /\ ~epOut'.raised) =>
              /\ { epOut'.result[i].id : i \in DOMAIN epOut'.result }
                   = { epMemories[i].id : i \in { j \in DOMAIN epMemories :
                                                   Satisfies(epMemories[j], filters) } }
              /\ filters.useMin =>
                    \A i \in DOMAIN epOut'.result :
                        epOut'.result[i].imp >= filters.min
      ]_vars

\* C32: in search_memories with a context, a merged candidate whose final
\* score after re-ranking is at least the threshold and among the top_k
\* highest final scores of all the merged candidates (fewer than top_k
\* others score as high) is in the result.
AllMerged ==
    MergeSearchResults(SortDesc(mrVector), SearchMetaSnapshots(mrMeta),
                       Len(mrVector) + Len(mrMeta))

Final(i) == FinalOf(AllMerged[i][1], AllMerged[i][2], mrContext)

BoostableKeptC32 ==
    (/\ mrOut[1] = "search"
     /\ mrContext # "none"
     /\ \A i \in DOMAIN mrVector : mrMap[mrVector[i][1]].present
     /\ ~RerankRaises(AllMerged))
    => \A i \in DOMAIN AllMerged :
          (/\ Final(i) >= mrThreshold
           /\ Cardinality({ j \in DOMAIN AllMerged \ {i} : Final(j) >= Final(i) })
                 < mrTopK)
          => \E k \in DOMAIN mrOut[2] : mrOut[2][k][1] = AllMerged[i][1]

\* C33: in the per-memory consolidation a failure on one memory does not
\* end the run: every other memory that has no snapshot gets one in the
\* same run of update_snapshots.
PmFails == PmNeeding \X {"llm", "save", "link"}

OthersServedC33 ==
    [][ \A fail \in PmFails :
          PmUpdateSnapshots(fail) =>
              \A m \in PmNeeding \ {fail[1]} :
                  \E l \in pmLinks' : l[1] = m ]_vars

\* C34: _evaluate_memories never returns an entry whose relevance_score, as
\* the oracle gave it, was outside [0, 1] or could not be read as a float,
\* whatever min_relevance is configured: every returned pair comes from an
\* entry for that memory whose score is missing or a float within [0, 1].
ValidScore(e, v) ==
    \/ e.score.kind = "missing" /\ v = 0
    \/ /\ Coercible(e.score)
       /\ FloatOf(e.score).v = v
       /\ 0 <= v /\ v <= ScoreMax

InvalidDroppedC34 ==
    jsOut.done =>
        \A k \in DOMAIN jsOut.list :
            \E i \in DOMAIN jResponse.entries :
                /\ jResponse.entries[i].dict
                /\ jResponse.entries[i].id = jsOut.list[k][1]
                /\ ValidScore(jResponse.entries[i], jsOut.list[k][2])

\* C35: the store never exceeds its capacity: after any sequence of add
\* calls it holds at most max_size memories.
CapacityC35 == Len(epMemories) <= epMaxSize

\* C36: reading does not compound decay: a memory returned by two
\* consecutive get or list calls, with no time passing between them, has the
\* same importance_score in both.
SameOnRereadC36 ==
    [][(/\ epOut.op \in {"get", "list"}
        /\ (\/ \E memory_id \in EpIds : EpGet(memory_id)
            \/ \E filters \in EpFilters : EpList(filters)))
       => \A i \in DOMAIN epOut.result : \A j \in DOMAIN epOut'.result :
             epOut.result[i].id = epOut'.result[j].id
                => epOut.result[i].imp = epOut'.result[j].imp]_vars

\* C37: no stale result survives an add that overlaps a search: when
\* add_memory has run to completion while search_memories was suspended
\* after its vector search, the entry the search writes to the cache for its
\* query is the result the index gives now, with the new memory in it.
NoStaleEntryC37 ==
    [][(SearchMerge /\ hOverlap)
       => \A e \in rcCache' : e.q = sq => e.results = Merged(VectorResults(sq))]_vars

\* C38: clearing is not undone by an earlier turn: once every background
\* _process_storage task has finished, the store holds no memory and no
\* snapshot of a turn that was made before the last clear_all completed.
ClearedStaysC38 ==
    chPending = <<>>
        => /\ \A i \in DOMAIN chStore : chStore[i].turn > hClearedTurn
           /\ \A t \in chSnaps : t > hClearedTurn

\* C39: after VectorStore.add_memory(id, content), also for an id that was
\* added before with another content, the vector inserted last into the
\* index for that id is the embedding of the content memory_map holds for
\* it, and the index has as many vectors as id_map has entries (the model
\* keeps each vector of the index together with its id_map entry).
LastVector(id) ==
    vsIndex[CHOOSE i \in DOMAIN vsIndex :
              /\ vsIndex[i].id = id
              /\ \A j \in DOMAIN vsIndex : vsIndex[j].id = id => j <= i].vec

VectorMatchesContentC39 ==
    \A m \in vsMemoryMap :
        /\ \E i \in DOMAIN vsIndex : vsIndex[i].id = m.id
        /\ LastVector(m.id) = Embed(m.content)

\* C40: FileMemoryStore keeps its two association tables mutually
\* consistent: after any sequence of add, delete, create_detail_snapshot and
\* clear_all_memories, snapshot s is in memory_snapshot_index[m] if and only
\* if memory m is in snapshot_memory_index[s].
TablesConsistentC40 ==
    \A m \in FsMemIds, s \in FsSnapIds :
        (s \in FsGet(memory_snapshot_index, m))
            <=> (m \in FsGet(snapshot_memory_index, s))

\* A memory of a snapshot has been deleted: the snapshot still has a memory
\* in both tables, and its file names one that has no entry any more.
WitnessC40 ==
    /\ fsResult = <<"delete", "true">>
    /\ \E s \in DOMAIN snapshot_memory_index :
          /\ snapshot_memory_index[s] # {}
          /\ \E m \in fsDetailFiles[s] : m \notin DOMAIN memory_snapshot_index

====
